---- MODULE Spec2Model ----
(***************************************************************************)
(* The real-time session hub of aicohost (src/server/routes.ts): the       *)
(* global client map, normalisation of the two wire dialects, the routing  *)
(* switch of handleWebSocketMessage, the close handler, the AI response    *)
(* orchestrator, the hotkey and personality handlers, and the audio       *)
(* accumulator (src/server/services/audio.ts) with the listeners the hub   *)
(* attaches to it; and the two clients of the hub, each on its own: the    *)
(* browser's useWebSocket hook (src/unnamed/part_004) and the desktop      *)
(* simulator (src/unnamed/part_002).                                       *)
(*                                                                         *)
(* JavaScript objects are records whose domain is the set of keys the      *)
(* object has; a key that is missing (or was dropped by JSON.stringify     *)
(* because its value was undefined) is simply not in the domain.           *)
(***************************************************************************)
EXTENDS Integers, Sequences, FiniteSets, TLC

VARIABLES
    clients,    \* the Map clientId -> WebSocketClient (routes.ts:32)
    nextId,     \* number of connections accepted so far; ids are 1..nextId
    sent,       \* per connection: the envelopes written to it by the last step
    last,       \* the event the last step handled (and the sender's entry before it)
    runs,       \* the invocations of handleAIResponseRequest, in start order
    messages,   \* storage: the AI messages createMessage has stored
    analytics,  \* storage: totalResponses of the sessions that have analytics
    personalities,  \* storage: the AI personality record of each session that has one
    first,      \* per connection: the type of the first envelope ever written to it
    isProcessing,   \* AudioProcessor.isProcessing (audio.ts:4)
    audioBuffer,    \* AudioProcessor.audioBuffer (audio.ts:5)
    events,     \* the events the AudioProcessor emitted in the last step, in order
    tally,      \* bytes accepted, handed off in 'audioReady' events and discarded
                \* so far, the number of the last chunk that left the buffer, and
                \* the number of chunks pushed when stopProcessing was last called
    pushed,     \* number of chunks pushed on audioBuffer so far
    transcribing,   \* number of transcribeAudio calls awaited (routes.ts:419)
    hook,       \* the browser's useWebSocket hook: its inputs, the sockets it has
                \* created, its state and its reconnect timer (part_004)
    simulator   \* the DesktopSimulator object, its active timers and the frames
                \* its last step sent (part_002)

vars == <<clients, nextId, sent, last, runs, messages, analytics, personalities, first,
          isProcessing, audioBuffer, events, tally, pushed, transcribing,
          hook, simulator>>
orchestrator == <<runs, messages, analytics, personalities>>
audio == <<isProcessing, audioBuffer, events, tally, pushed, transcribing>>
peers == <<hook, simulator>>
hub == <<clients, nextId, sent, first, orchestrator, audio>>

\* ---------------------------------------------------------------- bounds
NumConns == 2      \* connections accepted over a behaviour
MaxRuns == 1       \* orchestrator invocations over a behaviour
MaxChunks == 11    \* chunks pushed on the audio buffer over a behaviour
MaxOverlap == 2    \* orchestrator invocations over a behaviour of overlapping requests
MaxSockets == 3    \* sockets the useWebSocket hook creates over a behaviour
MaxTimers == 6     \* intervals the desktop simulator sets over a behaviour
MaxReady == 2      \* buffers handed to transcribeAudio over a behaviour of the hub

Conns == 1..NumConns

\* ------------------------------------------------------- JavaScript values
Undef == "undefined"
Now == "now"                     \* new Date().toISOString() on the server
NoClient == 0                    \* excludeClientId left undefined

\* null, written as an object no frame can be mistaken for
Null == [null |-> TRUE]
IsNull(v) == "null" \in DOMAIN v

Has(o, k) == k \in DOMAIN o
\* o.k for a string-valued key: undefined when the key is missing
Str(o, k) == IF Has(o, k) THEN o[k] ELSE Undef
\* a || b on strings (no frame of the model carries an empty string)
OrStr(a, b) == IF a # Undef THEN a ELSE b
\* o.k is truthy, for a boolean-valued key
Truthy(o, k) == Has(o, k) /\ o[k] = TRUE
\* o.k = v
SetField(o, k, v) == [x \in DOMAIN o \cup {k} |-> IF x = k THEN v ELSE o[x]]
\* message.data?.k for a string-valued key
DataStr(m, k) == IF Has(m, "data") THEN Str(m.data, k) ELSE Undef
DataTruthy(m, k) == Has(m, "data") /\ Truthy(m.data, k)
\* message.data is truthy
HasData(m) == Has(m, "data") /\ ~IsNull(m.data)

\* JSON.stringify of an envelope literal {type, source, data, timestamp}:
\* a key whose value is undefined is not written.
Envelope(type, source, m, timestamp) ==
    IF Has(m, "data")
    THEN [type |-> type, source |-> source, data |-> m.data, timestamp |-> timestamp]
    ELSE [type |-> type, source |-> source, timestamp |-> timestamp]

\* ---------------------------------------------------------------- frames
\* Payloads the clients put in data.
Hello == [text |-> "hello"]
Pause == [command |-> "pause"]
Ts == "t1"                       \* a timestamp written by a client

\* The parsed inbound frames the model draws from.  Typed frames carry source
\* and timestamp (part_004:101-106, part_002:239-244); legacy frames carry
\* neither (part_004:162-167, dashboard.tsx:256-260).
BrowserJoin == [type |-> "joinSession", sessionId |-> "s1", clientType |-> "browser",
                isHost |-> TRUE]
DesktopJoin == [type |-> "joinSession", source |-> "desktop", timestamp |-> Ts,
                data |-> [sessionId |-> "s1", clientType |-> "desktop", isHost |-> FALSE]]
OtherJoin == [type |-> "joinSession", sessionId |-> "s2"]
EmptyJoin == [type |-> "joinSession"]
DesktopConnectFrame == [type |-> "desktop_connect", source |-> "desktop", timestamp |-> Ts,
                        data |-> [sessionId |-> "s1"]]
EmptyDesktopConnect == [type |-> "desktop_connect", source |-> "desktop", timestamp |-> Ts]

\* a typed join frame that also carries the fields at its top level
ConflictingJoin ==
    [type |-> "joinSession", source |-> "desktop", timestamp |-> Ts,
     sessionId |-> "s2", clientType |-> "browser", isHost |-> TRUE,
     data |-> [sessionId |-> "s1", clientType |-> "desktop", isHost |-> FALSE]]

JoinFrames == {BrowserJoin, DesktopJoin, OtherJoin, EmptyJoin, ConflictingJoin,
               DesktopConnectFrame, EmptyDesktopConnect}

\* legacy status frames: the status at the top level, and a data field of null
StatusX == [type |-> "status", status |-> "x"]
NullStatus == [type |-> "status", data |-> Null]

DesktopTypes == {"transcript", "audio_levels"}
BrowserTypes == {"control_command", "ai_response"}
RoutedTypes == DesktopTypes \cup BrowserTypes \cup {"status"}

RoutedFrames ==
    {[type |-> t, source |-> "desktop", timestamp |-> Ts, data |-> Hello] :
        t \in DesktopTypes \cup {"status"}}
    \cup {[type |-> t, source |-> "browser", timestamp |-> Ts, data |-> Pause] :
            t \in BrowserTypes}
    \cup {[type |-> t, text |-> "hello"] : t \in {"transcript", "control_command", "status"}}
    \cup {[type |-> "transcript", source |-> "desktop", timestamp |-> Ts]}
    \cup {StatusX, NullStatus}

\* a legacy frame of a type the switch has no case for
Ping == [type |-> "ping"]

OtherFrames == {Ping}

Frames == JoinFrames \cup RoutedFrames \cup OtherFrames

RequestFrames ==
    {[type |-> "requestAIResponse", transcript |-> "hi"],
     [type |-> "requestAIResponse", source |-> "browser", timestamp |-> Ts,
      data |-> [transcript |-> "hi"]]}

OrchFrames == {BrowserJoin, DesktopJoin, OtherJoin, EmptyJoin} \cup RequestFrames

\* hotkey frames: legacy, typed, and carrying source next to a top-level key
\* and command
LegacyHotkey == [type |-> "hotkey", key |-> "r", command |-> "riff"]
TypedHotkey == [type |-> "hotkey", source |-> "browser", timestamp |-> Ts,
                data |-> [key |-> "r", command |-> "riff"]]
SourcedHotkey(key, command) ==
    [type |-> "hotkey", source |-> "browser", key |-> key, command |-> command]

\* updatePersonality frames: legacy, as the dashboard's send wraps it
\* (dashboard.tsx:215, part_004:113-117), and carrying source next to a
\* top-level personality
Funnier == [comedyLevel |-> 90]
LegacyPersonality == [type |-> "updatePersonality", personality |-> Funnier]
TypedPersonality == [type |-> "updatePersonality", source |-> "browser", timestamp |-> Ts,
                     data |-> LegacyPersonality]
SourcedPersonality == [type |-> "updatePersonality", source |-> "browser",
                       personality |-> Funnier]

ControlFrames ==
    {BrowserJoin, DesktopJoin,
     LegacyHotkey, TypedHotkey, SourcedHotkey("r", "riff"), SourcedHotkey("t", "tone"),
     LegacyPersonality, TypedPersonality, SourcedPersonality}

\* ------------------------------------------------------------ broadcasting
IsOpen(client) == client.readyState = "OPEN"

\* broadcastToSession with a loop that ends at the first entry of the session
\* whose socket is not open (the map is visited in insertion order)
SessionRecipientsUntilDead(cl, sessionId, excludeClientId) ==
    {id \in DOMAIN cl : /\ Str(cl[id], "sessionId") = sessionId
                        /\ IsOpen(cl[id])
                        /\ id # excludeClientId
                        /\ \A d \in DOMAIN cl :
                              (Str(cl[d], "sessionId") = sessionId /\ ~IsOpen(cl[d]))
                                  => id < d}

\* the connections broadcastToSession writes to
SessionRecipients(cl, sessionId, excludeClientId) ==
    {id \in DOMAIN cl : /\ Str(cl[id], "sessionId") = sessionId
                        /\ IsOpen(cl[id])
                        /\ id # excludeClientId}

\* broadcastToBrowserClients without its clientType test
BrowserRecipientsAnyKind(cl, sessionId) ==
    {id \in DOMAIN cl : Str(cl[id], "sessionId") = sessionId /\ IsOpen(cl[id])}

\* the connections broadcastToBrowserClients writes to
BrowserRecipients(cl, sessionId) ==
    {id \in DOMAIN cl : /\ Str(cl[id], "sessionId") = sessionId
                        /\ Str(cl[id], "clientType") = "browser"
                        /\ IsOpen(cl[id])}

\* broadcastToDesktopClients without its sessionId test
DesktopRecipientsAnySession(cl, sessionId) ==
    {id \in DOMAIN cl : Str(cl[id], "clientType") = "desktop" /\ IsOpen(cl[id])}

\* the connections broadcastToDesktopClients writes to
DesktopRecipients(cl, sessionId) ==
    {id \in DOMAIN cl : /\ Str(cl[id], "sessionId") = sessionId
                        /\ Str(cl[id], "clientType") = "desktop"
                        /\ IsOpen(cl[id])}

\* client.ws.send(JSON.stringify(message)) for every recipient
Send(out, recipients, envelope) ==
    [id \in Conns |-> IF id \in recipients THEN Append(out[id], envelope) ELSE out[id]]

NoOutput == [id \in Conns |-> <<>>]

\* the type of the first envelope each connection was ever written, once
\* the envelopes out have been written
Delivered(f, out) ==
    [id \in Conns |-> IF f[id] = "none" /\ out[id] # <<>> THEN out[id][1].type ELSE f[id]]

\* ------------------------------------------------------------ audio engine
\* A Buffer is the sequence of its bytes, written as runs [src, len]: len
\* bytes that arrived in the src-th chunk handed to the audio buffer.
CHUNK_SIZE == 4096
ReadyThreshold == CHUNK_SIZE * 10

\* the byte lengths of the chunks the clients send
ChunkLengths == {CHUNK_SIZE, 5 * CHUNK_SIZE}

\* the base64 text of a chunk of len bytes, as it travels in message.data
Base64(len) == [base64 |-> len]

\* Buffer.from(message.data, 'base64') (routes.ts:554)
BufferFrom(data, src) == <<[src |-> src, len |-> data.base64]>>

\* buffer.length
RECURSIVE ByteLength(_)
ByteLength(buffer) ==
    IF buffer = <<>> THEN 0 ELSE buffer[1].len + ByteLength(Tail(buffer))

\* Buffer.concat(list)
RECURSIVE BufferConcat(_)
BufferConcat(list) ==
    IF list = <<>> THEN <<>> ELSE list[1] \o BufferConcat(Tail(list))

\* getTotalBufferSize (audio.ts:56-58)
RECURSIVE GetTotalBufferSize(_)
GetTotalBufferSize(list) ==
    IF list = <<>> THEN 0 ELSE ByteLength(list[1]) + GetTotalBufferSize(Tail(list))

\* calculateAudioLevel (audio.ts:39-54): a level computed from the chunk
CalculateAudioLevel(chunk) == [dB |-> chunk[1].src]

\* processBufferedAudio without the reset of audioBuffer
ProcessBufferedAudioKeeping(list) ==
    [audioBuffer |-> list,
     events |-> <<[name |-> "audioReady", audioData |-> BufferConcat(list)]>>]

\* processBufferedAudio (audio.ts:60-66)
ProcessBufferedAudio(list) ==
    [audioBuffer |-> <<>>,
     events |-> <<[name |-> "audioReady", audioData |-> BufferConcat(list)]>>]

\* processAudioChunk handing the buffer off before it reports the level
ProcessAudioChunkReadyFirst(processing, list, chunk) ==
    IF ~processing
    THEN [audioBuffer |-> list, events |-> <<>>]
    ELSE LET pushedList == Append(list, chunk)
             level == [name |-> "audioLevel", level |-> CalculateAudioLevel(chunk)]
         IN  IF GetTotalBufferSize(pushedList) >= ReadyThreshold
             THEN [audioBuffer |-> ProcessBufferedAudio(pushedList).audioBuffer,
                   events |-> ProcessBufferedAudio(pushedList).events \o <<level>>]
             ELSE [audioBuffer |-> pushedList, events |-> <<level>>]

\* processAudioChunk without the test of isProcessing
ProcessAudioChunkAlways(processing, list, chunk) ==
    LET pushedList == Append(list, chunk)
        level == [name |-> "audioLevel", level |-> CalculateAudioLevel(chunk)]
    IN  IF GetTotalBufferSize(pushedList) >= ReadyThreshold
        THEN [audioBuffer |-> ProcessBufferedAudio(pushedList).audioBuffer,
              events |-> <<level>> \o ProcessBufferedAudio(pushedList).events]
        ELSE [audioBuffer |-> pushedList, events |-> <<level>>]

\* processAudioChunk handing the buffer off only once it exceeds the threshold
ProcessAudioChunkStrict(processing, list, chunk) ==
    IF ~processing
    THEN [audioBuffer |-> list, events |-> <<>>]
    ELSE LET pushedList == Append(list, chunk)
             level == [name |-> "audioLevel", level |-> CalculateAudioLevel(chunk)]
         IN  IF GetTotalBufferSize(pushedList) > ReadyThreshold
             THEN [audioBuffer |-> ProcessBufferedAudio(pushedList).audioBuffer,
                   events |-> <<level>> \o ProcessBufferedAudio(pushedList).events]
             ELSE [audioBuffer |-> pushedList, events |-> <<level>>]

\* processAudioChunk (audio.ts:24-37): the buffer it leaves and the events
\* it emits, in order
ProcessAudioChunk(processing, list, chunk) ==
    IF ~processing
    THEN [audioBuffer |-> list, events |-> <<>>]
    ELSE LET pushedList == Append(list, chunk)
             level == [name |-> "audioLevel", level |-> CalculateAudioLevel(chunk)]
         IN  IF GetTotalBufferSize(pushedList) >= ReadyThreshold
             THEN [audioBuffer |-> ProcessBufferedAudio(pushedList).audioBuffer,
                   events |-> <<level>> \o ProcessBufferedAudio(pushedList).events]
             ELSE [audioBuffer |-> pushedList, events |-> <<level>>]

\* the payloads of the 'audioReady' events among evs
RECURSIVE ReadyPayloads(_)
ReadyPayloads(evs) ==
    IF evs = <<>> THEN <<>>
    ELSE (IF evs[1].name = "audioReady" THEN <<evs[1].audioData>> ELSE <<>>)
            \o ReadyPayloads(Tail(evs))

\* the tally once a chunk was handed to processAudioChunk, which emitted evs
\* and has now pushed n chunks in all
Accepted(t, evs, data, n) ==
    IF evs = <<>> THEN t
    ELSE [t EXCEPT !.accepted = @ + data[1].base64,
                   !.ready = @ + GetTotalBufferSize(ReadyPayloads(evs)),
                   !.gone = IF ReadyPayloads(evs) # <<>> THEN n ELSE @]

\* the connections broadcast writes to (routes.ts:690-696)
BroadcastRecipients(cl) == {id \in DOMAIN cl : IsOpen(cl[id])}

\* the listeners of routes.ts:413-426 run on the events of one step: an
\* 'audioLevel' is broadcast at once, an 'audioReady' starts a transcription
RECURSIVE OnAudioEvents(_, _, _)
OnAudioEvents(cl, evs, out) ==
    IF evs = <<>> THEN out
    ELSE OnAudioEvents(cl, Tail(evs),
            IF evs[1].name = "audioLevel"
            THEN Send(out, BroadcastRecipients(cl),
                      [type |-> "audioLevel", data |-> evs[1].level])
            ELSE out)

\* text.trim() on a text written as a sequence of characters
RECURSIVE TrimStart(_)
TrimStart(text) ==
    IF text # <<>> /\ text[1] = " " THEN TrimStart(Tail(text)) ELSE text
RECURSIVE TrimEnd(_)
TrimEnd(text) ==
    IF text # <<>> /\ text[Len(text)] = " "
    THEN TrimEnd(SubSeq(text, 1, Len(text) - 1)) ELSE text
Trim(text) == TrimEnd(TrimStart(text))

\* the texts transcribeAudio resolves with
Transcripts == {<<"h", "i">>, <<" ">>}

\* routes.ts:419-422 once transcribeAudio has resolved
OnTranscribed(cl, text) ==
    IF Trim(text) # <<>>
    THEN Send(NoOutput, BroadcastRecipients(cl),
              [type |-> "transcription", data |-> [text |-> text, confidence |-> "0.95"]])
    ELSE NoOutput

\* ------------------------------------------------------------ normalisation
IsLegacy(message) == ~Has(message, "source") /\ ~Has(message, "timestamp")

\* the conversion stamping every legacy frame as a browser's
NormalizeAsBrowser(client, message) ==
    IF IsLegacy(message)
    THEN [type |-> Str(message, "type"),
          source |-> "browser",
          data |-> IF HasData(message) THEN message.data ELSE message,
          timestamp |-> Now]
    ELSE message

\* routes.ts:433-442
Normalize(client, message) ==
    IF IsLegacy(message)
    THEN [type |-> Str(message, "type"),
          source |-> OrStr(Str(client, "clientType"), "browser"),
          data |-> IF HasData(message) THEN message.data ELSE message,
          timestamp |-> Now]
    ELSE message

\* ------------------------------------------------------------ join cases
\* the assignments reading the top-level fields only, without message.data
JoinSessionTopLevelOnly(client, message) ==
    LET c1 == SetField(client, "sessionId", Str(message, "sessionId"))
        c2 == SetField(c1, "isHost", Truthy(message, "isHost"))
    IN  SetField(c2, "clientType", OrStr(Str(message, "clientType"), "browser"))

\* routes.ts:446-448
JoinSession(client, message) ==
    LET c1 == SetField(client, "sessionId",
                       OrStr(Str(message, "sessionId"), DataStr(message, "sessionId")))
        c2 == SetField(c1, "isHost", Truthy(message, "isHost") \/ DataTruthy(message, "isHost"))
    IN  SetField(c2, "clientType",
                 OrStr(OrStr(Str(message, "clientType"), DataStr(message, "clientType")),
                       "browser"))

\* routes.ts:468-469
DesktopConnect(client, message) ==
    SetField(SetField(client, "clientType", "desktop"),
             "sessionId", DataStr(message, "sessionId"))

\* the status envelope of routes.ts:452-461 (and 387-396) after JSON.stringify
StatusNotice(status, client, clientId) ==
    [type |-> "status", source |-> "server",
     data |-> IF Str(client, "clientType") # Undef
              THEN [status |-> status, clientType |-> client.clientType, clientId |-> clientId]
              ELSE [status |-> status, clientId |-> clientId],
     timestamp |-> Now]

\* routes.ts:473-481
DesktopNotice(sessionId) ==
    [type |-> "status", source |-> "server",
     data |-> [status |-> "desktop_connected", sessionId |-> sessionId],
     timestamp |-> Now]

\* ------------------------------------------------------------ the switch
\* the guard without its clientType test
MayForwardAnyKind(client, kind) == Str(client, "sessionId") # Undef

\* The guard of the four role-directed cases (routes.ts:488, 501, 514, 527)
MayForward(client, kind) ==
    Str(client, "clientType") = kind /\ Str(client, "sessionId") # Undef

\* case 'joinSession' (routes.ts:445-464)
OnJoinSession(cl, clientId, message) ==
    LET joined == JoinSession(cl[clientId], message)
        cl2 == [cl EXCEPT ![clientId] = joined]
    IN  [cl |-> cl2,
         out |-> IF Str(joined, "sessionId") # Undef
                 THEN Send(NoOutput, SessionRecipients(cl2, joined.sessionId, clientId),
                           StatusNotice("client_connected", joined, clientId))
                 ELSE NoOutput,
         call |-> <<>>, audioData |-> <<>>, upsert |-> <<>>]

\* case 'desktop_connect' announcing the way case 'joinSession' does
OnDesktopConnectToSession(cl, clientId, message) ==
    LET joined == DesktopConnect(cl[clientId], message)
        cl2 == [cl EXCEPT ![clientId] = joined]
    IN  [cl |-> cl2,
         out |-> IF Str(joined, "sessionId") # Undef
                 THEN Send(NoOutput, SessionRecipients(cl2, joined.sessionId, clientId),
                           StatusNotice("desktop_connected", joined, clientId))
                 ELSE NoOutput,
         call |-> <<>>, audioData |-> <<>>, upsert |-> <<>>]

\* case 'desktop_connect' (routes.ts:466-484)
OnDesktopConnect(cl, clientId, message) ==
    LET joined == DesktopConnect(cl[clientId], message)
        cl2 == [cl EXCEPT ![clientId] = joined]
    IN  [cl |-> cl2,
         out |-> IF Str(joined, "sessionId") # Undef
                 THEN Send(NoOutput, BrowserRecipients(cl2, joined.sessionId),
                           DesktopNotice(joined.sessionId))
                 ELSE NoOutput,
         call |-> <<>>, audioData |-> <<>>, upsert |-> <<>>]

\* cases 'transcript' and 'audio_levels' (routes.ts:486-497, 525-536)
ForwardToBrowsers(cl, clientId, message) ==
    IF MayForward(cl[clientId], "desktop")
    THEN Send(NoOutput, BrowserRecipients(cl, cl[clientId].sessionId),
              Envelope(message.type, "desktop", message,
                       OrStr(Str(message, "timestamp"), Now)))
    ELSE NoOutput

\* cases 'ai_response' and 'control_command' (routes.ts:499-523)
ForwardToDesktops(cl, clientId, message) ==
    IF MayForward(cl[clientId], "browser")
    THEN Send(NoOutput, DesktopRecipients(cl, cl[clientId].sessionId),
              Envelope(message.type, "browser", message,
                       OrStr(Str(message, "timestamp"), Now)))
    ELSE NoOutput

\* case 'status' broadcasting to the whole session, the sender included
ForwardStatusIncludingSender(cl, clientId, message) ==
    IF Str(cl[clientId], "sessionId") # Undef
    THEN Send(NoOutput, SessionRecipients(cl, cl[clientId].sessionId, NoClient),
              Envelope("status",
                       OrStr(Str(message, "source"),
                             OrStr(Str(cl[clientId], "clientType"), "browser")),
                       message, OrStr(Str(message, "timestamp"), Now)))
    ELSE NoOutput

\* case 'status' (routes.ts:538-549)
ForwardStatus(cl, clientId, message) ==
    IF Str(cl[clientId], "sessionId") # Undef
    THEN Send(NoOutput, SessionRecipients(cl, cl[clientId].sessionId, clientId),
              Envelope("status",
                       OrStr(Str(message, "source"),
                             OrStr(Str(cl[clientId], "clientType"), "browser")),
                       message, OrStr(Str(message, "timestamp"), Now)))
    ELSE NoOutput

\* handleAIResponseRequest without its test of client.sessionId
AIResponseCallUnjoined(client, message) ==
    <<[transcript |-> IF Has(message, "transcript") THEN message.transcript ELSE ""]>>

\* the synchronous head of handleAIResponseRequest (routes.ts:573-603): the
\* arguments of the generateAIResponse call it awaits, if it makes one
AIResponseCall(client, message) ==
    IF Str(client, "sessionId") = Undef
    THEN <<>>
    ELSE <<[transcript |-> IF Has(message, "transcript") THEN message.transcript ELSE ""]>>

\* the commands for which handleHotkey asks for an AI response, and the
\* transcript it asks with (routes.ts:659-669)
AICommands == {"riff", "oneLiner", "wrap"}
HotkeyTranscript(command) ==
    CASE command = "riff" -> "Continue with a creative riff on the current topic"
      [] command = "oneLiner" -> "Respond with just a quick one-liner"
      [] command = "wrap" -> "Help wrap up this topic in the next 10 seconds"

\* the envelope of routes.ts:653-656 after JSON.stringify: key and command
\* are read from the message itself, and dropped when undefined
HotkeyTriggered(message) ==
    [type |-> "hotkeyTriggered",
     data |-> [k \in {"key", "command"} \cap DOMAIN message |-> message[k]]]

\* handleHotkey (routes.ts:648-670), up to the generateAIResponse call it
\* may be left awaiting
OnHotkey(cl, clientId, message) ==
    IF Str(cl[clientId], "sessionId") = Undef
    THEN [cl |-> cl, out |-> NoOutput, call |-> <<>>, audioData |-> <<>>, upsert |-> <<>>]
    ELSE [cl |-> cl,
          out |-> Send(NoOutput, SessionRecipients(cl, cl[clientId].sessionId, NoClient),
                       HotkeyTriggered(message)),
          call |-> IF Str(message, "command") \in AICommands
                   THEN AIResponseCall(cl[clientId],
                                       [transcript |-> HotkeyTranscript(message.command)])
                   ELSE <<>>,
          audioData |-> <<>>, upsert |-> <<>>]

\* { sessionId: client.sessionId, ...message.personality } (routes.ts:676-679)
PersonalityInsert(client, message) ==
    LET base == [sessionId |-> client.sessionId]
        given == IF Has(message, "personality") THEN message.personality ELSE << >>
    IN  [k \in DOMAIN base \cup DOMAIN given |-> IF k \in DOMAIN given THEN given[k] ELSE base[k]]

\* the record MemStorage.upsertAIPersonality stores (storage.ts:155-171)
DefaultComedyLevel == 60
PersonalityRecord(insert) ==
    [sessionId |-> insert.sessionId,
     comedyLevel |-> IF Has(insert, "comedyLevel") /\ insert.comedyLevel # 0
                     THEN insert.comedyLevel ELSE DefaultComedyLevel]

\* this.aiPersonalities.set(insertPersonality.sessionId, personality)
UpsertAIPersonality(stored, insert) ==
    [s \in DOMAIN stored \cup {insert.sessionId} |->
        IF s = insert.sessionId THEN PersonalityRecord(insert) ELSE stored[s]]

\* the envelope of routes.ts:681-684
PersonalityUpdated(record) == [type |-> "personalityUpdated", data |-> record]

\* handlePersonalityUpdate (routes.ts:672-688); MemStorage's upsert does not
\* reject, so the catch is not entered
OnPersonalityUpdate(cl, clientId, message) ==
    IF Str(cl[clientId], "sessionId") = Undef
    THEN [cl |-> cl, out |-> NoOutput, call |-> <<>>, audioData |-> <<>>, upsert |-> <<>>]
    ELSE LET insert == PersonalityInsert(cl[clientId], message) IN
         [cl |-> cl,
          out |-> Send(NoOutput, SessionRecipients(cl, cl[clientId].sessionId, NoClient),
                       PersonalityUpdated(PersonalityRecord(insert))),
          call |-> <<>>, audioData |-> <<>>, upsert |-> <<insert>>]

\* the switch with a default case that reports the frame to its sender
DispatchRejectingUnknown(cl, clientId, message) ==
    LET type == Str(message, "type")
        quiet(out) == [cl |-> cl, out |-> out, call |-> <<>>, audioData |-> <<>>, upsert |-> <<>>]
    IN
    CASE type = "joinSession" -> OnJoinSession(cl, clientId, message)
      [] type = "desktop_connect" -> OnDesktopConnect(cl, clientId, message)
      [] type \in {"transcript", "audio_levels"} ->
            quiet(ForwardToBrowsers(cl, clientId, message))
      [] type \in {"ai_response", "control_command"} ->
            quiet(ForwardToDesktops(cl, clientId, message))
      [] type = "status" -> quiet(ForwardStatus(cl, clientId, message))
      [] type = "requestAIResponse" ->
            [cl |-> cl, out |-> NoOutput, call |-> AIResponseCall(cl[clientId], message),
             audioData |-> <<>>, upsert |-> <<>>]
      [] type = "audioData" ->
            [cl |-> cl, out |-> NoOutput, call |-> <<>>,
             audioData |-> IF HasData(message) THEN <<message.data>> ELSE <<>>,
             upsert |-> <<>>]
      [] type = "hotkey" -> OnHotkey(cl, clientId, message)
      [] type = "updatePersonality" -> OnPersonalityUpdate(cl, clientId, message)
      [] OTHER -> quiet(Send(NoOutput, {clientId},
                             [type |-> "error", source |-> "server",
                              data |-> [message |-> "Unknown message type"],
                              timestamp |-> Now]))

\* the switch of routes.ts:444-571: the registry and the output after the
\* frame, the collaborator call the handler is left awaiting, the base64
\* text it hands to the audio engine, and the record it hands to the storage
Dispatch(cl, clientId, message) ==
    LET type == Str(message, "type")
        quiet(out) == [cl |-> cl, out |-> out, call |-> <<>>, audioData |-> <<>>, upsert |-> <<>>]
    IN
    CASE type = "joinSession" -> OnJoinSession(cl, clientId, message)
      [] type = "desktop_connect" -> OnDesktopConnect(cl, clientId, message)
      [] type \in {"transcript", "audio_levels"} ->
            quiet(ForwardToBrowsers(cl, clientId, message))
      [] type \in {"ai_response", "control_command"} ->
            quiet(ForwardToDesktops(cl, clientId, message))
      [] type = "status" -> quiet(ForwardStatus(cl, clientId, message))
      [] type = "requestAIResponse" ->
            [cl |-> cl, out |-> NoOutput, call |-> AIResponseCall(cl[clientId], message),
             audioData |-> <<>>, upsert |-> <<>>]
      [] type = "audioData" ->
            [cl |-> cl, out |-> NoOutput, call |-> <<>>,
             audioData |-> IF HasData(message) THEN <<message.data>> ELSE <<>>,
             upsert |-> <<>>]
      [] type = "hotkey" -> OnHotkey(cl, clientId, message)
      [] type = "updatePersonality" -> OnPersonalityUpdate(cl, clientId, message)
      [] OTHER -> quiet(NoOutput)

\* routes.ts:428-571
HandleWebSocketMessage(cl, clientId, frame) ==
    IF clientId \notin DOMAIN cl \/ ~IsOpen(cl[clientId])
    THEN [cl |-> cl, out |-> NoOutput, call |-> <<>>, audioData |-> <<>>, upsert |-> <<>>]
    ELSE Dispatch(cl, clientId, Normalize(cl[clientId], frame))

\* the catch of ws.on('message') (routes.ts:371-380): ws.send writes nothing
\* on a socket that is not open
ParseError ==
    [type |-> "error", source |-> "server",
     data |-> [message |-> "Unexpected token"], timestamp |-> Now]

\* the catch reporting to every open connection instead of the sender
OnParseErrorToAll(cl, clientId) ==
    Send(NoOutput, {id \in DOMAIN cl : IsOpen(cl[id])}, ParseError)

OnParseError(cl, clientId) ==
    IF IsOpen(cl[clientId]) THEN Send(NoOutput, {clientId}, ParseError) ELSE NoOutput

\* ------------------------------------------------------------ orchestrator
\* Storage as initializeDemoData leaves it (routes.ts:34-142): demo-session-1
\* ("s1") has an AI speaker and an analytics record, no other session has.
DemoTotalResponses == 5
AISpeakerSessions == {"s1"}

\* a run of handleAIResponseRequest, suspended in generateAIResponse
NewRun(clientId, call) ==
    [clientId |-> clientId, pc |-> "generate", transcript |-> call.transcript,
     detached |-> <<>>, broadcast |-> FALSE]

InFlight(run) == run.pc \in {"generate", "synthesize"}

\* the client object the run holds: the registry's entry, or the object as the
\* close handler left it when it deleted the entry
RunClient(cl, run) == IF run.detached # <<>> THEN run.detached[1] ELSE cl[run.clientId]

\* the envelope of the catch (routes.ts:644)
ErrorReply(reason) == [type |-> "error", message |-> reason]

\* the catch reporting to the whole session instead of the requester
OnRunErrorToSession(cl, run, reason) ==
    Send(NoOutput, SessionRecipients(cl, Str(RunClient(cl, run), "sessionId"), NoClient),
         ErrorReply(reason))

\* routes.ts:642-645
OnRunError(cl, run, reason) ==
    IF IsOpen(RunClient(cl, run))
    THEN Send(NoOutput, {run.clientId}, ErrorReply(reason))
    ELSE NoOutput

\* storage.createMessage (storage.ts:110-122) for the reply of run i
AIMessage(i, sessionId) == [id |-> i, sessionId |-> sessionId, isAIGenerated |-> TRUE]

\* routes.ts:621-627
AIResponse(aiMessage) ==
    [type |-> "aiResponse", data |-> [message |-> aiMessage, audio |-> "base64"]]

\* the analytics written from the totalResponses read when the session began
UpdateAnalyticsFromSnapshot(an, sessionId) ==
    IF sessionId \in DOMAIN an THEN [an EXCEPT ![sessionId] = DemoTotalResponses + 1] ELSE an

\* routes.ts:629-640
UpdateAnalytics(an, sessionId) ==
    IF sessionId \in DOMAIN an THEN [an EXCEPT ![sessionId] = @ + 1] ELSE an

\* the reply broadcast as soon as it is stored, before speech is synthesised
AfterGenerateBroadcasting(cl, i, run, msgs) ==
    LET sessionId == Str(RunClient(cl, run), "sessionId") IN
    IF sessionId \in AISpeakerSessions
    THEN [run |-> [run EXCEPT !.pc = "synthesize", !.broadcast = TRUE],
          messages |-> msgs \cup {AIMessage(i, sessionId)},
          out |-> Send(NoOutput, SessionRecipients(cl, sessionId, NoClient),
                       AIResponse(AIMessage(i, sessionId)))]
    ELSE [run |-> [run EXCEPT !.pc = "noSpeaker", !.detached = <<>>],
          messages |-> msgs,
          out |-> NoOutput]

\* routes.ts:605-619 once generateAIResponse has returned
AfterGenerate(cl, i, run, msgs) ==
    LET sessionId == Str(RunClient(cl, run), "sessionId") IN
    IF sessionId \in AISpeakerSessions
    THEN [run |-> [run EXCEPT !.pc = "synthesize"],
          messages |-> msgs \cup {AIMessage(i, sessionId)},
          out |-> NoOutput]
    ELSE [run |-> [run EXCEPT !.pc = "noSpeaker", !.detached = <<>>],
          messages |-> msgs,
          out |-> NoOutput]

\* the message the run stored
RunMessage(i, msgs) == CHOOSE m \in msgs : m.id = i

\* the analytics updated without the reply having been broadcast
AfterSynthesizeCountingOnly(cl, i, run, msgs, an) ==
    LET sessionId == Str(RunClient(cl, run), "sessionId") IN
    [run |-> [run EXCEPT !.pc = "done", !.detached = <<>>],
     out |-> NoOutput,
     analytics |-> UpdateAnalytics(an, sessionId)]

\* the broadcast made only if the requester is still open
AfterSynthesizeIfRequesterOpen(cl, i, run, msgs, an) ==
    LET sessionId == Str(RunClient(cl, run), "sessionId") IN
    [run |-> [run EXCEPT !.pc = "done", !.detached = <<>>, !.broadcast = TRUE],
     out |-> IF IsOpen(RunClient(cl, run))
             THEN Send(NoOutput, SessionRecipients(cl, sessionId, NoClient),
                       AIResponse(RunMessage(i, msgs)))
             ELSE NoOutput,
     analytics |-> UpdateAnalytics(an, sessionId)]

\* routes.ts:621-640 once synthesizeSpeech has returned
AfterSynthesize(cl, i, run, msgs, an) ==
    LET sessionId == Str(RunClient(cl, run), "sessionId") IN
    [run |-> [run EXCEPT !.pc = "done", !.detached = <<>>, !.broadcast = TRUE],
     out |-> Send(NoOutput, SessionRecipients(cl, sessionId, NoClient),
                  AIResponse(RunMessage(i, msgs))),
     analytics |-> UpdateAnalytics(an, sessionId)]

\* ------------------------------------------------------------ useWebSocket
\* The inputs the hook may be rendered with (part_004:33-35, 45-47).
HookSessions == {Undef, "s1", "s2"}
HookKinds == {"browser", "desktop"}

\* new WebSocket(wsUrl) inside the connection effect (part_004:153-154): the
\* handlers it is given close over the sessionId and clientType of the render
NewSocket(sessionId, clientType) ==
    [readyState |-> "CONNECTING", sessionId |-> sessionId, clientType |-> clientType,
     sent |-> <<>>]

\* part_004:162-167
JoinMessage(sessionId, clientType) ==
    [type |-> "joinSession", sessionId |-> sessionId, clientType |-> clientType,
     isHost |-> clientType = "browser"]

\* part_004:173-178
DesktopConnectMessage(sessionId) ==
    [type |-> "desktop_connect", source |-> "desktop", data |-> [sessionId |-> sessionId],
     timestamp |-> Ts]

\* the frames socket.onopen writes (part_004:160-180)
OnOpenFrames(socket) ==
    (IF socket.sessionId # Undef
     THEN <<JoinMessage(socket.sessionId, socket.clientType)>> ELSE <<>>)
    \o (IF socket.clientType = "desktop" /\ socket.sessionId # Undef
        THEN <<DesktopConnectMessage(socket.sessionId)>> ELSE <<>>)

\* The state setters of a handler followed by the reconnection effect
\* (part_004:225-241): it runs again only when isConnected or connectionStatus
\* changed, clears the timer of its previous run and sets a new one when the
\* hook is disconnected. The connection effect depends on sessionId and
\* clientType only (part_004:222) and does not run.
ReconnectEffect(h, isConnected, connectionStatus) ==
    [h EXCEPT !.isConnected = isConnected,
              !.connectionStatus = connectionStatus,
              !.reconnectTimer =
                  IF <<isConnected, connectionStatus>> = <<h.isConnected, h.connectionStatus>>
                  THEN h.reconnectTimer
                  ELSE ~isConnected /\ connectionStatus = "disconnected"]

\* the hook after its first render and effects (part_004:56-59, 148-154)
HookMounted ==
    [sessionId |-> "s1", clientType |-> "browser",
     sockets |-> <<NewSocket("s1", "browser")>>,
     isConnected |-> FALSE, connectionStatus |-> "connecting", reconnectTimer |-> FALSE]

\* ------------------------------------------------------------ DesktopSimulator
\* sampleConversation.length (part_002:12-88)
ConversationLength == 15
TimerKinds == {"transcript", "audioLevel", "status"}
NoTimer == 0                     \* an interval field that is null

\* sendMessage (part_002:233-248)
SimSend(sim, type, data) ==
    IF sim.isConnected
    THEN [sim EXCEPT !.out = Append(@, [type |-> type, source |-> "desktop", data |-> data,
                                        timestamp |-> Ts])]
    ELSE sim

\* startSimulation (part_002:319-353): the three setInterval calls return the
\* next three timer ids
StartSimulation(sim) ==
    IF sim.isRunning THEN sim
    ELSE LET started == SimSend([sim EXCEPT !.isRunning = TRUE], "status",
                                [status |-> "processing_started"])
             n == sim.nextTimer
         IN  [started EXCEPT !.transcriptInterval = n + 1,
                             !.audioLevelInterval = n + 2,
                             !.statusInterval = n + 3,
                             !.nextTimer = n + 3,
                             !.timers = @ \cup {[id |-> n + 1, kind |-> "transcript"],
                                                [id |-> n + 2, kind |-> "audioLevel"],
                                                [id |-> n + 3, kind |-> "status"]}]

\* clearInterval(id): no effect when no active timer has that id
ClearInterval(timers, id) == {t \in timers : t.id # id}

\* pauseSimulation (part_002:411-423)
PauseSimulation(sim) ==
    IF ~sim.isRunning THEN sim
    ELSE SimSend([sim EXCEPT !.isRunning = FALSE,
                             !.timers = ClearInterval(ClearInterval(@, sim.transcriptInterval),
                                                      sim.audioLevelInterval)],
                 "status", [status |-> "processing_paused"])

\* resumeSimulation (part_002:425-430)
ResumeSimulation(sim) == IF sim.isRunning THEN sim ELSE StartSimulation(sim)

\* cleanup (part_002:441-458)
Cleanup(sim) ==
    [sim EXCEPT !.isRunning = FALSE,
                !.timers = ClearInterval(ClearInterval(ClearInterval(@,
                               sim.transcriptInterval), sim.audioLevelInterval),
                               sim.statusInterval),
                !.transcriptInterval = NoTimer,
                !.audioLevelInterval = NoTimer,
                !.statusInterval = NoTimer]

\* stopSimulation (part_002:432-439)
StopSimulation(sim) == SimSend(Cleanup(sim), "status", [status |-> "processing_stopped"])

\* handleControlCommand (part_002:294-317)
HandleControlCommand(sim, command) ==
    CASE command = "pause" -> PauseSimulation(sim)
      [] command = "resume" -> ResumeSimulation(sim)
      [] command = "stop" -> StopSimulation(sim)
      [] command = "skip_speaker" ->
            [sim EXCEPT !.conversationIndex =
                IF @ + 1 < ConversationLength - 1 THEN @ + 1 ELSE ConversationLength - 1]
      [] OTHER -> sim

\* the callback of the transcript interval (part_002:334-342, 355-375)
TranscriptCallback(sim) ==
    IF sim.conversationIndex < ConversationLength
    THEN [SimSend(sim, "transcript", [index |-> sim.conversationIndex])
            EXCEPT !.conversationIndex = @ + 1]
    ELSE [sim EXCEPT !.conversationIndex = 0]

\* the callback of an interval of the given kind (part_002:334-352, 377-409)
IntervalCallback(sim, kind) ==
    CASE kind = "transcript" -> TranscriptCallback(sim)
      [] kind = "audioLevel" -> SimSend(sim, "audio_levels", [input |-> "level"])
      [] kind = "status" -> SimSend(sim, "status", [status |-> "processing_active"])

\* the simulator once its socket has opened and onConnect has sent its two
\* frames and set the timeout that starts the simulation (part_002:167-231)
SimulatorConnected ==
    [isConnected |-> TRUE, isRunning |-> FALSE, conversationIndex |-> 0,
     transcriptInterval |-> NoTimer, audioLevelInterval |-> NoTimer,
     statusInterval |-> NoTimer, timers |-> {}, nextTimer |-> 0,
     startTimeout |-> TRUE, out |-> <<>>]

\* ------------------------------------------------------------ actions
\* a step that makes no call to the audio engine
AudioIdle ==
    /\ events' = <<>>
    /\ UNCHANGED <<isProcessing, audioBuffer, tally, pushed, transcribing>>

Init ==
    /\ clients = << >>
    /\ nextId = 0
    /\ sent = NoOutput
    /\ last = [op |-> "init"]
    /\ runs = <<>>
    /\ messages = {}
    /\ analytics = [s \in AISpeakerSessions |-> DemoTotalResponses]
    /\ personalities = [s \in AISpeakerSessions |->
                            PersonalityRecord([sessionId |-> s,
                                               comedyLevel |-> DefaultComedyLevel])]
    /\ first = [id \in Conns |-> "none"]
    /\ isProcessing = FALSE
    /\ audioBuffer = <<>>
    /\ events = <<>>
    /\ tally = [accepted |-> 0, ready |-> 0, discarded |-> 0, gone |-> 0, stopped |-> 0]
    /\ pushed = 0
    /\ transcribing = 0
    /\ hook = HookMounted
    /\ simulator = SimulatorConnected

\* the connection registered without the 'connected' envelope being written
ConnectionUnannounced ==
    /\ nextId < NumConns
    /\ nextId' = nextId + 1
    /\ clients' = clients @@ ((nextId + 1) :> [readyState |-> "OPEN"])
    /\ sent' = NoOutput
    /\ last' = [op |-> "connection", clientId |-> nextId + 1]
    /\ first' = Delivered(first, sent')
    /\ UNCHANGED peers
    /\ AudioIdle
    /\ UNCHANGED orchestrator

\* wss.on('connection') (routes.ts:363-410)
Connection ==
    /\ nextId < NumConns
    /\ LET clientId == nextId + 1 IN
        /\ nextId' = clientId
        /\ clients' = clients @@ (clientId :> [readyState |-> "OPEN"])
        /\ sent' = Send(NoOutput, {clientId},
                        [type |-> "connected", source |-> "server",
                         data |-> [clientId |-> clientId], timestamp |-> Now])
        /\ last' = [op |-> "connection", clientId |-> clientId]
    /\ first' = Delivered(first, sent')
    /\ UNCHANGED peers
    /\ AudioIdle
    /\ UNCHANGED orchestrator

\* ws.on('message') with a frame JSON.parse accepts (routes.ts:367-370), up to
\* the handler's first await of a collaborator, in a behaviour that starts
\* at most maxRuns orchestrator invocations
OnMessageWithin(clientId, frame, maxRuns) ==
    /\ clientId \in DOMAIN clients
    /\ IsOpen(clients[clientId])
    /\ LET r == HandleWebSocketMessage(clients, clientId, frame)
           a == IF r.audioData = <<>>
                THEN [audioBuffer |-> audioBuffer, events |-> <<>>]
                ELSE ProcessAudioChunk(isProcessing, audioBuffer,
                                       BufferFrom(r.audioData[1], pushed + 1))
       IN
        /\ r.call # <<>> => Len(runs) < maxRuns
        /\ a.events # <<>> => pushed < MaxChunks
        /\ clients' = r.cl
        /\ sent' = OnAudioEvents(r.cl, a.events, r.out)
        /\ runs' = IF r.call # <<>> THEN Append(runs, NewRun(clientId, r.call[1])) ELSE runs
        /\ audioBuffer' = a.audioBuffer
        /\ events' = a.events
        /\ pushed' = IF a.events # <<>> THEN pushed + 1 ELSE pushed
        /\ tally' = Accepted(tally, a.events, r.audioData, pushed')
        /\ transcribing' = transcribing + Len(ReadyPayloads(a.events))
        /\ personalities' = IF r.upsert # <<>>
                            THEN UpsertAIPersonality(personalities, r.upsert[1])
                            ELSE personalities
    /\ last' = [op |-> "message", clientId |-> clientId, frame |-> frame,
                before |-> clients[clientId]]
    /\ first' = Delivered(first, sent')
    /\ UNCHANGED peers
    /\ UNCHANGED <<nextId, messages, analytics, isProcessing>>

OnMessage(clientId, frame) == OnMessageWithin(clientId, frame, MaxRuns)

\* ws.on('message') with a frame JSON.parse rejects (routes.ts:371-380)
OnBadMessage(clientId) ==
    /\ clientId \in DOMAIN clients
    /\ IsOpen(clients[clientId])
    /\ sent' = OnParseError(clients, clientId)
    /\ last' = [op |-> "badMessage", clientId |-> clientId]
    /\ first' = Delivered(first, sent')
    /\ UNCHANGED peers
    /\ UNCHANGED <<clients, nextId, runs, messages, analytics, personalities>>
    /\ AudioIdle

\* the transport starts closing: readyState leaves OPEN before 'close' fires
SocketClosing(clientId) ==
    /\ clientId \in DOMAIN clients
    /\ IsOpen(clients[clientId])
    /\ clients' = [clients EXCEPT ![clientId].readyState = "CLOSING"]
    /\ sent' = NoOutput
    /\ last' = [op |-> "closing", clientId |-> clientId]
    /\ first' = Delivered(first, sent')
    /\ UNCHANGED peers
    /\ UNCHANGED <<nextId, runs, messages, analytics, personalities>>
    /\ AudioIdle

\* the disconnect notice without the test of client.sessionId
OnCloseOutputUnguarded(cl, clientId) ==
    Send(NoOutput, SessionRecipients(cl, Str(cl[clientId], "sessionId"), clientId),
         StatusNotice("client_disconnected", cl[clientId], clientId))

\* the disconnect notice of the close handler (routes.ts:384-398)
OnCloseOutput(cl, clientId) ==
    IF Str(cl[clientId], "sessionId") # Undef
    THEN Send(NoOutput, SessionRecipients(cl, cl[clientId].sessionId, clientId),
              StatusNotice("client_disconnected", cl[clientId], clientId))
    ELSE NoOutput

\* ws.on('close') (routes.ts:383-400); a suspended run keeps the client object
OnClose(clientId) ==
    /\ clientId \in DOMAIN clients
    /\ sent' = OnCloseOutput(clients, clientId)
    /\ clients' = [id \in DOMAIN clients \ {clientId} |-> clients[id]]
    /\ runs' = [i \in DOMAIN runs |->
                  IF runs[i].clientId = clientId /\ InFlight(runs[i])
                  THEN [runs[i] EXCEPT !.detached =
                            <<[clients[clientId] EXCEPT !.readyState = "CLOSED"]>>]
                  ELSE runs[i]]
    /\ last' = [op |-> "close", clientId |-> clientId, before |-> clients[clientId]]
    /\ first' = Delivered(first, sent')
    /\ UNCHANGED peers
    /\ UNCHANGED <<nextId, messages, analytics, personalities>>
    /\ AudioIdle

\* generateAIResponse rejects (openai.ts:75-78): the catch of routes.ts:642
GenerateThrows(i) ==
    /\ i \in DOMAIN runs
    /\ runs[i].pc = "generate"
    /\ sent' = OnRunError(clients, runs[i], "Failed to generate AI response")
    /\ runs' = [runs EXCEPT ![i].pc = "failed", ![i].detached = <<>>]
    /\ last' = [op |-> "generateThrows", clientId |-> runs[i].clientId, run |-> i]
    /\ first' = Delivered(first, sent')
    /\ UNCHANGED peers
    /\ UNCHANGED <<clients, nextId, messages, analytics, personalities>>
    /\ AudioIdle

\* generateAIResponse resolves: routes.ts:605-619 up to the synthesizeSpeech call
GenerateReturns(i) ==
    /\ i \in DOMAIN runs
    /\ runs[i].pc = "generate"
    /\ LET r == AfterGenerate(clients, i, runs[i], messages) IN
        /\ runs' = [runs EXCEPT ![i] = r.run]
        /\ messages' = r.messages
        /\ sent' = r.out
    /\ last' = [op |-> "generateReturns", clientId |-> runs[i].clientId, run |-> i]
    /\ first' = Delivered(first, sent')
    /\ UNCHANGED peers
    /\ UNCHANGED <<clients, nextId, analytics, personalities>>
    /\ AudioIdle

\* synthesizeSpeech rejects (openai.ts:93-96): the catch of routes.ts:642
SynthesizeThrows(i) ==
    /\ i \in DOMAIN runs
    /\ runs[i].pc = "synthesize"
    /\ sent' = OnRunError(clients, runs[i], "Failed to synthesize speech")
    /\ runs' = [runs EXCEPT ![i].pc = "failed", ![i].detached = <<>>]
    /\ last' = [op |-> "synthesizeThrows", clientId |-> runs[i].clientId, run |-> i]
    /\ first' = Delivered(first, sent')
    /\ UNCHANGED peers
    /\ UNCHANGED <<clients, nextId, messages, analytics, personalities>>
    /\ AudioIdle

\* synthesizeSpeech resolves: the broadcast and the analytics update
\* (routes.ts:621-640)
SynthesizeReturns(i) ==
    /\ i \in DOMAIN runs
    /\ runs[i].pc = "synthesize"
    /\ LET r == AfterSynthesize(clients, i, runs[i], messages, analytics) IN
        /\ sent' = r.out
        /\ analytics' = r.analytics
        /\ runs' = [runs EXCEPT ![i] = r.run]
    /\ last' = [op |-> "synthesizeReturns", clientId |-> runs[i].clientId, run |-> i]
    /\ first' = Delivered(first, sent')
    /\ UNCHANGED peers
    /\ UNCHANGED <<clients, nextId, messages, personalities>>
    /\ AudioIdle

\* startProcessing (audio.ts:13-16)
StartProcessing ==
    /\ isProcessing' = TRUE
    /\ events' = <<[name |-> "processingStarted"]>>
    /\ sent' = NoOutput
    /\ last' = [op |-> "startProcessing"]
    /\ first' = Delivered(first, sent')
    /\ UNCHANGED peers
    /\ UNCHANGED <<clients, nextId, orchestrator, audioBuffer, tally, pushed, transcribing>>

\* stopProcessing without the reset of audioBuffer
StopProcessingKeepingBuffer ==
    /\ isProcessing' = FALSE
    /\ events' = <<[name |-> "processingStopped"]>>
    /\ sent' = NoOutput
    /\ tally' = [tally EXCEPT !.gone = pushed, !.stopped = pushed]
    /\ last' = [op |-> "stopProcessing", dropped |-> audioBuffer]
    /\ first' = Delivered(first, sent')
    /\ UNCHANGED peers
    /\ UNCHANGED <<clients, nextId, orchestrator, audioBuffer, pushed, transcribing>>

\* stopProcessing (audio.ts:18-22)
StopProcessing ==
    /\ isProcessing' = FALSE
    /\ audioBuffer' = <<>>
    /\ events' = <<[name |-> "processingStopped"]>>
    /\ sent' = NoOutput
    /\ tally' = [tally EXCEPT !.discarded = @ + GetTotalBufferSize(audioBuffer),
                              !.gone = pushed, !.stopped = pushed]
    /\ last' = [op |-> "stopProcessing", dropped |-> audioBuffer]
    /\ first' = Delivered(first, sent')
    /\ UNCHANGED peers
    /\ UNCHANGED <<clients, nextId, orchestrator, pushed, transcribing>>

\* transcribeAudio resolves (openai.ts:41-44): routes.ts:419-422
TranscribeReturns(text) ==
    /\ transcribing > 0
    /\ transcribing' = transcribing - 1
    /\ sent' = OnTranscribed(clients, text)
    /\ events' = <<>>
    /\ last' = [op |-> "transcribeReturns", text |-> text]
    /\ first' = Delivered(first, sent')
    /\ UNCHANGED peers
    /\ UNCHANGED <<clients, nextId, orchestrator, isProcessing, audioBuffer, tally, pushed>>

\* transcribeAudio rejects (openai.ts:45-48): the catch of routes.ts:423-425
TranscribeThrows ==
    /\ transcribing > 0
    /\ transcribing' = transcribing - 1
    /\ sent' = NoOutput
    /\ events' = <<>>
    /\ last' = [op |-> "transcribeThrows"]
    /\ first' = Delivered(first, sent')
    /\ UNCHANGED peers
    /\ UNCHANGED <<clients, nextId, orchestrator, isProcessing, audioBuffer, tally, pushed>>

Lifecycle ==
    \/ Connection
    \/ \E clientId \in Conns : OnBadMessage(clientId)
    \/ \E clientId \in Conns : SocketClosing(clientId)
    \/ \E clientId \in Conns : OnClose(clientId)

\* The hub with the frames that are handled without awaiting a collaborator.
Next ==
    \/ Lifecycle
    \/ \E clientId \in Conns, frame \in Frames : OnMessage(clientId, frame)

Spec == Init /\ [][Next]_vars

\* The hub with the orchestrator: joins, requestAIResponse frames and the
\* outcomes of the two awaited collaborators.
NextOrch ==
    \/ Lifecycle
    \/ \E clientId \in Conns, frame \in OrchFrames : OnMessage(clientId, frame)
    \/ \E i \in 1..MaxRuns : GenerateThrows(i)
    \/ \E i \in 1..MaxRuns : GenerateReturns(i)
    \/ \E i \in 1..MaxRuns : SynthesizeThrows(i)
    \/ \E i \in 1..MaxRuns : SynthesizeReturns(i)

SpecOrch == Init /\ [][NextOrch]_vars

\* audioData frames in the legacy dialect, one for each chunk length
AudioFrames == {[type |-> "audioData", data |-> Base64(len)] : len \in ChunkLengths}

\* The audio engine fed by the hub: audioData frames and the calls of the
\* processor's start and stop methods.
NextAudio ==
    \/ Connection
    \/ \E clientId \in Conns, frame \in AudioFrames : OnMessage(clientId, frame)
    \/ StartProcessing
    \/ StopProcessing

SpecAudio == Init /\ [][NextAudio]_vars

\* a join, a status frame, and an audioData frame whose chunk fills the
\* audio buffer by itself
HubAudioFrames ==
    {BrowserJoin, [type |-> "status", text |-> "hello"],
     [type |-> "audioData", data |-> Base64(ReadyThreshold)]}

\* The hub together with the audio engine and the outcomes of transcribeAudio.
NextHubAudio ==
    \/ Lifecycle
    \/ \E clientId \in Conns, frame \in HubAudioFrames :
            OnMessage(clientId, frame) /\ pushed' <= MaxReady
    \/ StartProcessing
    \/ StopProcessing
    \/ \E text \in Transcripts : TranscribeReturns(text)
    \/ TranscribeThrows

SpecHubAudio == Init /\ [][NextHubAudio]_vars

\* The hub with the hotkey and updatePersonality frames, and the outcomes of
\* the collaborators a hotkey may leave the handler awaiting.
NextControl ==
    \/ Lifecycle
    \/ \E clientId \in Conns, frame \in ControlFrames : OnMessage(clientId, frame)
    \/ \E i \in 1..MaxRuns : GenerateThrows(i)
    \/ \E i \in 1..MaxRuns : GenerateReturns(i)
    \/ \E i \in 1..MaxRuns : SynthesizeThrows(i)
    \/ \E i \in 1..MaxRuns : SynthesizeReturns(i)

SpecControl == Init /\ [][NextControl]_vars

\* a typed frame of a type the switch has no case for, carrying audio
StrayAudio == [type |-> "audio", source |-> "desktop", timestamp |-> Ts,
               data |-> Base64(CHUNK_SIZE)]

\* The hub and the audio engine with frames the switch has no case for.
StrayFrames ==
    {BrowserJoin, [type |-> "audioData", data |-> Base64(5 * CHUNK_SIZE)], Ping, StrayAudio}

NextStray ==
    \/ Connection
    \/ \E clientId \in Conns, frame \in StrayFrames : OnMessage(clientId, frame)
    \/ StartProcessing
    \/ StopProcessing

SpecStray == Init /\ [][NextStray]_vars

\* a browser's join, a requestAIResponse frame and a hotkey frame that asks
\* for an AI response
OverlapFrames ==
    {BrowserJoin, [type |-> "requestAIResponse", transcript |-> "hi"],
     SourcedHotkey("r", "riff")}

\* The hub with orchestrator invocations that overlap.
NextOverlap ==
    \/ Connection
    \/ \E clientId \in Conns, frame \in OverlapFrames :
            OnMessageWithin(clientId, frame, MaxOverlap)
    \/ \E i \in 1..MaxOverlap : GenerateThrows(i)
    \/ \E i \in 1..MaxOverlap : GenerateReturns(i)
    \/ \E i \in 1..MaxOverlap : SynthesizeThrows(i)
    \/ \E i \in 1..MaxOverlap : SynthesizeReturns(i)

SpecOverlap == Init /\ [][NextOverlap]_vars

\* a join as a desktop that names no session
EmptyDesktopJoin == [type |-> "joinSession", clientType |-> "desktop"]

\* a join that names a session, two joins (as a browser, as a desktop) that
\* name none, and one frame of every type whose case or handler tests
\* client.sessionId
GuardFrames ==
    {BrowserJoin, EmptyJoin, EmptyDesktopJoin}
    \cup {f \in RoutedFrames : Has(f, "source") /\ HasData(f)}
    \cup {[type |-> "requestAIResponse", transcript |-> "hi"],
          SourcedHotkey("r", "riff"), SourcedPersonality}

\* The hub with frames of every guarded type, sent by connections that have
\* joined a session and by connections that have not.
NextGuard ==
    \/ Connection
    \/ \E clientId \in Conns, frame \in GuardFrames : OnMessage(clientId, frame)
    \/ \E i \in 1..MaxRuns : GenerateThrows(i)
    \/ \E i \in 1..MaxRuns : GenerateReturns(i)
    \/ \E i \in 1..MaxRuns : SynthesizeThrows(i)
    \/ \E i \in 1..MaxRuns : SynthesizeReturns(i)

SpecGuard == Init /\ [][NextGuard]_vars

\* socket.onopen of the i-th socket the hook created (part_004:156-181)
SocketOnOpen(i) ==
    /\ i \in DOMAIN hook.sockets
    /\ hook.sockets[i].readyState = "CONNECTING"
    /\ hook' = ReconnectEffect(
                 [hook EXCEPT !.sockets[i].readyState = "OPEN",
                              !.sockets[i].sent = OnOpenFrames(hook.sockets[i])],
                 TRUE, "connected")
    /\ last' = [op |-> "onopen", socket |-> i]
    /\ UNCHANGED <<hub, simulator>>

\* socket.onclose of the i-th socket (part_004:206-210): the server or the
\* network closed it, or the close the effect's cleanup asked for completed
SocketOnClose(i) ==
    /\ i \in DOMAIN hook.sockets
    /\ hook.sockets[i].readyState # "CLOSED"
    /\ hook' = ReconnectEffect([hook EXCEPT !.sockets[i].readyState = "CLOSED"],
                               FALSE, "disconnected")
    /\ last' = [op |-> "onclose", socket |-> i]
    /\ UNCHANGED <<hub, simulator>>

\* socket.onerror of the i-th socket (part_004:212-215); the browser fires
\* 'close' on the failed socket right after 'error'
SocketOnError(i) ==
    /\ i \in DOMAIN hook.sockets
    /\ hook.sockets[i].readyState \in {"CONNECTING", "OPEN"}
    /\ hook' = ReconnectEffect(
                 ReconnectEffect([hook EXCEPT !.sockets[i].readyState = "CLOSED"],
                                 hook.isConnected, "disconnected"),
                 FALSE, "disconnected")
    /\ last' = [op |-> "onerror", socket |-> i]
    /\ UNCHANGED <<hub, simulator>>

\* the callback of the reconnect timer (part_004:230-233): it logs
ReconnectTimeout ==
    /\ hook.reconnectTimer
    /\ hook' = [hook EXCEPT !.reconnectTimer = FALSE]
    /\ last' = [op |-> "reconnectTimeout"]
    /\ UNCHANGED <<hub, simulator>>

\* A render with another sessionId or clientType: the connection effect's
\* cleanup closes the current socket if it is open, and the effect creates a
\* socket for the new inputs (part_004:148-154, 217-222)
InputsChange(sessionId, clientType) ==
    /\ <<sessionId, clientType>> # <<hook.sessionId, hook.clientType>>
    /\ Len(hook.sockets) < MaxSockets
    /\ LET current == Len(hook.sockets)
           cleaned == IF hook.sockets[current].readyState = "OPEN"
                      THEN [hook EXCEPT !.sockets[current].readyState = "CLOSING"]
                      ELSE hook
       IN  hook' = ReconnectEffect(
                     [cleaned EXCEPT !.sessionId = sessionId,
                                     !.clientType = clientType,
                                     !.sockets = Append(@, NewSocket(sessionId, clientType))],
                     hook.isConnected, "connecting")
    /\ last' = [op |-> "render", sessionId |-> sessionId, clientType |-> clientType]
    /\ UNCHANGED <<hub, simulator>>

\* The useWebSocket hook of one browser page and the events of its sockets.
NextHook ==
    \/ \E i \in 1..MaxSockets : SocketOnOpen(i)
    \/ \E i \in 1..MaxSockets : SocketOnClose(i)
    \/ \E i \in 1..MaxSockets : SocketOnError(i)
    \/ ReconnectTimeout
    \/ \E sessionId \in HookSessions, clientType \in HookKinds :
            InputsChange(sessionId, clientType)

SpecHook == Init /\ [][NextHook]_vars

\* The hook with the steps that happen by themselves: a timer that was set
\* fires, and a socket that is connecting to a reachable server opens.
\* Closes, errors and new inputs are up to the environment.
SpecHookLive ==
    /\ SpecHook
    /\ WF_vars(ReconnectTimeout)
    /\ WF_vars(\E i \in 1..MaxSockets : SocketOnOpen(i))

\* the timeout set by onConnect fires (part_002:228-230)
StartTimeout ==
    /\ simulator.startTimeout
    /\ simulator.nextTimer + Cardinality(TimerKinds) <= MaxTimers
    /\ simulator' = StartSimulation([simulator EXCEPT !.startTimeout = FALSE, !.out = <<>>])
    /\ last' = [op |-> "startTimeout"]
    /\ UNCHANGED <<hub, hook>>

\* a control_command envelope arrives (part_002:262-264, 294-317)
ControlCommand(command) ==
    /\ (command = "resume" /\ ~simulator.isRunning) =>
            simulator.nextTimer + Cardinality(TimerKinds) <= MaxTimers
    /\ simulator' = HandleControlCommand([simulator EXCEPT !.out = <<>>], command)
    /\ last' = [op |-> "controlCommand", command |-> command]
    /\ UNCHANGED <<hub, hook>>

\* an active interval fires
IntervalFires(t) ==
    /\ t \in simulator.timers
    /\ simulator' = IntervalCallback([simulator EXCEPT !.out = <<>>], t.kind)
    /\ last' = [op |-> "interval", timer |-> t]
    /\ UNCHANGED <<hub, hook>>

\* ws.on('close') (part_002:197-201)
SimulatorOnClose ==
    /\ simulator.isConnected
    /\ simulator' = Cleanup([simulator EXCEPT !.isConnected = FALSE, !.out = <<>>])
    /\ last' = [op |-> "simulatorClose"]
    /\ UNCHANGED <<hub, hook>>

ControlCommands == {"pause", "resume", "stop", "skip_speaker", "adjust_speed"}

\* The desktop simulator: its start timeout, the control commands it is sent,
\* its intervals and the close of its socket.
NextSimulator ==
    \/ StartTimeout
    \/ \E command \in ControlCommands : ControlCommand(command)
    \/ \E id \in 1..MaxTimers, kind \in TimerKinds :
            IntervalFires([id |-> id, kind |-> kind])
    \/ SimulatorOnClose

SpecSimulator == Init /\ [][NextSimulator]_vars

\* ------------------------------------------------------------ properties
\* what the last step handled
LastIsFrame(types) == last.op = "message" /\ Str(last.frame, "type") \in types
Sender == clients[last.clientId]
JoinedAs(client, kind) ==
    Str(client, "clientType") = kind /\ Str(client, "sessionId") # Undef

\* the payload a frame carries: its data field, or the frame itself when it is
\* written in the legacy dialect without one
PayloadOf(frame) ==
    IF Has(frame, "data") THEN <<frame.data>>
    ELSE IF IsLegacy(frame) THEN <<frame>> ELSE <<>>
DataOf(envelope) == IF Has(envelope, "data") THEN <<envelope.data>> ELSE <<>>

\* the connection got exactly one envelope, forwarded from the last frame
GotForwarded(id, source) ==
    /\ Len(sent[id]) = 1
    /\ sent[id][1].type = last.frame.type
    /\ Str(sent[id][1], "source") = source
    /\ DataOf(sent[id][1]) = PayloadOf(last.frame)

OpenPeer(id, kind) ==
    /\ id \in DOMAIN clients
    /\ IsOpen(clients[id])
    /\ Str(clients[id], "sessionId") = Sender.sessionId
    /\ Str(clients[id], "clientType") = kind

\* C1: after a transcript frame from a connection joined to S as desktop,
\* every open browser connection of S has received exactly one transcript
\* envelope with source 'desktop' and the sender's payload, and every other
\* connection has received nothing.
C1_TranscriptToBrowsers ==
    (LastIsFrame({"transcript"}) /\ JoinedAs(Sender, "desktop")) =>
        \A id \in Conns :
            IF OpenPeer(id, "browser") THEN GotForwarded(id, "desktop") ELSE sent[id] = <<>>

C1_Witness ==
    /\ LastIsFrame({"transcript"})
    /\ JoinedAs(Sender, "desktop")
    /\ \E id \in Conns : OpenPeer(id, "browser") /\ Len(sent[id]) = 1

\* C2: after a control_command or ai_response frame from a connection joined
\* to S as browser, every open desktop connection of S has received exactly
\* one envelope of that type with the same payload, and no other connection
\* (another session's, a browser, the sender) has received anything.
C2_ControlToDesktops ==
    (LastIsFrame(BrowserTypes) /\ JoinedAs(Sender, "browser")) =>
        \A id \in Conns :
            IF OpenPeer(id, "desktop") THEN GotForwarded(id, "browser") ELSE sent[id] = <<>>

C2_Witness ==
    /\ LastIsFrame(BrowserTypes)
    /\ JoinedAs(Sender, "browser")
    /\ \E id \in Conns : OpenPeer(id, "desktop") /\ Len(sent[id]) = 1

\* a frame whose type the routing table reserves for the other client kind
RoleViolation(client, frame) ==
    \/ Str(frame, "type") \in DesktopTypes /\ Str(client, "clientType") = "browser"
    \/ Str(frame, "type") \in BrowserTypes /\ Str(client, "clientType") = "desktop"

\* C3: a transcript or audio_levels frame from a browser connection, and a
\* control_command or ai_response frame from a desktop connection, delivers no
\* envelope to anyone (no error to the sender either) and changes no registry
\* entry.
C3_RoleViolationDropped ==
    [][(last'.op = "message" /\ RoleViolation(clients[last'.clientId], last'.frame))
        => (sent' = NoOutput /\ clients' = clients)]_vars

\* a browser of a session sent a desktop-only frame: it is itself among the
\* session's browsers that such a frame is forwarded to
C3_Witness ==
    /\ LastIsFrame(DesktopTypes)
    /\ JoinedAs(Sender, "browser")
    /\ IsOpen(Sender)
    /\ sent = NoOutput

\* the envelopes of a given type among those the last step wrote to id
OfType(id, type) == SelectSeq(sent[id], LAMBDA e : e.type = type)
NoneOfType(type) == \A id \in Conns : OfType(id, type) = <<>>

RunFailed == last.op \in {"generateThrows", "synthesizeThrows"}
RequesterOpen == last.clientId \in DOMAIN clients /\ IsOpen(clients[last.clientId])

\* C4 as claimed: when generateAIResponse throws, the requesting connection
\* receives exactly one error envelope and nobody receives an aiResponse.
C4_Original ==
    last.op = "generateThrows" =>
        /\ Len(OfType(last.clientId, "error")) = 1
        /\ NoneOfType("aiResponse")

\* C4 as amended: when generateAIResponse throws, the requesting connection
\* receives exactly one error envelope and nothing else if its socket is still
\* open, and nothing if it is not; no other connection receives anything, and
\* no aiResponse is broadcast for the request.
C4_ErrorToOpenRequester ==
    last.op = "generateThrows" =>
        /\ \A id \in Conns :
              IF id = last.clientId /\ RequesterOpen
              THEN Len(sent[id]) = 1 /\ sent[id][1].type = "error"
              ELSE sent[id] = <<>>
        /\ ~runs[last.run].broadcast

\* the requester is open and shares its session with another open connection
C4_Witness ==
    /\ last.op = "generateThrows"
    /\ RequesterOpen
    /\ Len(sent[last.clientId]) = 1
    /\ \E id \in Conns \ {last.clientId} :
          /\ id \in DOMAIN clients
          /\ IsOpen(clients[id])
          /\ Str(clients[id], "sessionId") = Str(clients[last.clientId], "sessionId")

C6_ParseErrorToSenderOnly ==
    [][last'.op = "badMessage" =>
        /\ clients' = clients
        /\ IsOpen(clients'[last'.clientId])
        /\ \A id \in Conns :
              IF id = last'.clientId
              THEN Len(sent'[id]) = 1 /\ sent'[id][1].type = "error"
              ELSE sent'[id] = <<>>]_vars

\* the sender of the bad frame shares a session with another open connection
C6_Witness ==
    /\ last.op = "badMessage"
    /\ Len(sent[last.clientId]) = 1
    /\ \E id \in Conns \ {last.clientId} :
          /\ id \in DOMAIN clients
          /\ IsOpen(clients[id])
          /\ Str(clients[id], "sessionId") # Undef
          /\ Str(clients[id], "sessionId") = Str(clients[last.clientId], "sessionId")

EnvelopeFields == {"type", "source", "data", "timestamp"}

\* C7: every envelope the hub writes carries type, source, data and timestamp.
C7_EnvelopesComplete ==
    \A id \in Conns : \A k \in DOMAIN sent[id] : EnvelopeFields \subseteq DOMAIN sent[id][k]

Joined(cl, id) == id \in DOMAIN cl /\ Str(cl[id], "sessionId") # Undef

\* C8: a connection whose sessionId is set keeps that value for as long as it
\* is registered.
C8_SessionIdImmutable ==
    [][\A id \in DOMAIN clients \cap DOMAIN clients' :
          Joined(clients, id) =>
              Str(clients'[id], "sessionId") = Str(clients[id], "sessionId")]_vars

\* C9: a connection whose clientType is set keeps that value for as long as
\* it is registered.
C9_ClientKindImmutable ==
    [][\A id \in DOMAIN clients \cap DOMAIN clients' :
          Str(clients[id], "clientType") # Undef =>
              Str(clients'[id], "clientType") = Str(clients[id], "clientType")]_vars

\* the state of a connection in the lifecycle of spec section 4.2
ConnState(cl, id) ==
    IF id \notin DOMAIN cl THEN <<"Closed">>
    ELSE IF Joined(cl, id) THEN <<"Joined", cl[id].sessionId, Str(cl[id], "clientType")>>
    ELSE <<"Unidentified">>

IsJoinFrame(frame) == Str(frame, "type") \in {"joinSession", "desktop_connect"}
NamesSession(frame) ==
    Str(frame, "sessionId") # Undef \/ DataStr(frame, "sessionId") # Undef

\* C10: a joined connection stays joined until it closes, a closed connection
\* never comes back, and a join frame that names no session leaves the
\* sender in the state (Unidentified, or Joined to its session with its kind)
\* it was in.
C10_Lifecycle ==
    [][/\ \A id \in Conns :
            /\ (Joined(clients, id) /\ id \in DOMAIN clients') => Joined(clients', id)
            /\ (id <= nextId /\ id \notin DOMAIN clients) => id \notin DOMAIN clients'
       /\ (last'.op = "message" /\ IsJoinFrame(last'.frame) /\ ~NamesSession(last'.frame))
            => ConnState(clients', last'.clientId)
                    = ConnState(clients, last'.clientId)]_vars

SessionIds == {"s1", "s2"}

\* the sessions a join frame names, at its top level or in its data
SessionsNamed(frame) == {Str(frame, "sessionId"), DataStr(frame, "sessionId")} \ {Undef}

\* how many of the entries a broadcast to the session visits are connection id
Occurrences(cl, id, sessionId) ==
    Cardinality({k \in SessionRecipients(cl, sessionId, NoClient) : k = id})

\* C11: after a joinSession frame from connection C naming session S, C is
\* listed exactly once among the connections a broadcast to S reaches and
\* under no other session, however many joinSession frames C sent before.
C11_ListedOnce ==
    \A S \in SessionIds :
        (LastIsFrame({"joinSession"}) /\ SessionsNamed(last.frame) = {S}) =>
            \A T \in SessionIds :
                Occurrences(clients, last.clientId, T) = IF T = S THEN 1 ELSE 0

\* the frame is a second joinSession naming the session the sender is in,
\* which it shares with another open connection
C11_Witness ==
    /\ LastIsFrame({"joinSession"})
    /\ SessionsNamed(last.frame) = {"s1"}
    /\ Str(last.before, "sessionId") = "s1"
    /\ Cardinality(SessionRecipients(clients, "s1", NoClient)) = 2

\* another open connection of the session the sender is in after the frame
SessionPeer(id) ==
    /\ id # last.clientId
    /\ id \in DOMAIN clients
    /\ IsOpen(clients[id])
    /\ Str(clients[id], "sessionId") = Sender.sessionId

\* the connection got exactly one status envelope from the server with this data
GotStatus(id, data) ==
    /\ Len(sent[id]) = 1
    /\ sent[id][1].type = "status"
    /\ sent[id][1].source = "server"
    /\ sent[id][1].data = data

JoinSucceeded(types) == LastIsFrame(types) /\ Joined(clients, last.clientId)

\* C12 as claimed: after a successful joinSession or desktop_connect by C,
\* every other open connection of the session has received one status envelope
\* (client_connected, desktop_connected) with C's clientType and clientId, and
\* nobody else, C included, has received anything.
C12_Original ==
    JoinSucceeded({"joinSession", "desktop_connect"}) =>
        \A id \in Conns :
            IF SessionPeer(id)
            THEN GotStatus(id, [status |-> IF last.frame.type = "joinSession"
                                           THEN "client_connected"
                                           ELSE "desktop_connected",
                                clientType |-> Sender.clientType,
                                clientId |-> last.clientId])
            ELSE sent[id] = <<>>

\* C12 as amended: a successful joinSession is announced to every other open
\* connection of the session by one client_connected status envelope with
\* C's clientType and clientId; a successful desktop_connect is announced to
\* the open browser connections of the session only, by one
\* desktop_connected status envelope carrying the sessionId; nobody else, C
\* included, receives anything.
C12_ConnectNotice ==
    /\ JoinSucceeded({"joinSession"}) =>
          \A id \in Conns :
              IF SessionPeer(id)
              THEN GotStatus(id, [status |-> "client_connected",
                                  clientType |-> Sender.clientType,
                                  clientId |-> last.clientId])
              ELSE sent[id] = <<>>
    /\ JoinSucceeded({"desktop_connect"}) =>
          \A id \in Conns :
              IF SessionPeer(id) /\ Str(clients[id], "clientType") = "browser"
              THEN GotStatus(id, [status |-> "desktop_connected",
                                  sessionId |-> Sender.sessionId])
              ELSE sent[id] = <<>>

\* a desktop_connect into a session that has an open browser connection
C12_Witness ==
    /\ JoinSucceeded({"desktop_connect"})
    /\ \E id \in Conns :
          SessionPeer(id) /\ Str(clients[id], "clientType") = "browser" /\ Len(sent[id]) = 1

\* C13: when a connection whose entry names session S closes, every other
\* open connection of S has been sent exactly one client_disconnected status
\* envelope naming it, nobody else has been sent anything, and the connection
\* is no longer registered; when a connection that names no session closes,
\* it is removed and nothing is sent to anyone.
C13_CloseNotice ==
    last.op = "close" =>
        /\ last.clientId \notin DOMAIN clients
        /\ \A id \in Conns :
              IF /\ Str(last.before, "sessionId") # Undef
                 /\ id \in DOMAIN clients
                 /\ IsOpen(clients[id])
                 /\ Str(clients[id], "sessionId") = last.before.sessionId
              THEN GotStatus(id, [status |-> "client_disconnected",
                                  clientType |-> last.before.clientType,
                                  clientId |-> last.clientId])
              ELSE sent[id] = <<>>

\* a joined connection closed while a peer of its session was open
C13_Witness ==
    /\ last.op = "close"
    /\ Str(last.before, "sessionId") # Undef
    /\ \E id \in DOMAIN clients :
          /\ IsOpen(clients[id])
          /\ Str(clients[id], "sessionId") = last.before.sessionId
          /\ Len(sent[id]) = 1

\* C14: the first envelope written to an accepted connection is its
\* 'connected' envelope, which carries its clientId: no status, error,
\* forwarded, audioLevel or transcription envelope reaches a connection
\* before it, whatever the other connections and the audio engine do.
C14_ConnectedFirst ==
    /\ \A id \in Conns :
          first[id] = IF id <= nextId THEN "connected" ELSE "none"
    /\ last.op = "connection" =>
          /\ Len(sent[last.clientId]) = 1
          /\ sent[last.clientId][1].type = "connected"
          /\ sent[last.clientId][1].data = [clientId |-> last.clientId]

\* a transcription broadcast reaches the connection accepted last
C14_Witness ==
    /\ last.op = "transcribeReturns"
    /\ nextId = NumConns
    /\ sent[NumConns] # <<>>
    /\ sent[NumConns][1].type = "transcription"
    /\ tally.gone = 1

\* the peers of the sender's session got the legacy frame forwarded with
\* this data, the sender's clientType as source and the server's timestamp
ForwardedNormalized(data) ==
    \A id \in Conns :
        IF SessionPeer(id)
        THEN /\ Len(sent[id]) = 1
             /\ sent[id][1].type = last.frame.type
             /\ sent[id][1].source = last.before.clientType
             /\ sent[id][1].timestamp = Now
             /\ sent[id][1].data = data
        ELSE sent[id] = <<>>

LegacyStatus ==
    LastIsFrame({"status"}) /\ IsLegacy(last.frame) /\ Joined(clients, last.clientId)

\* C15 as claimed: a legacy status frame from a joined connection reaches its
\* peers as an envelope of the same type whose source is the sender's
\* clientType, whose timestamp the server wrote, and whose data is the
\* frame's data field if the frame has one and the whole frame otherwise.
C15_Original ==
    LegacyStatus =>
        ForwardedNormalized(IF Has(last.frame, "data") THEN last.frame.data ELSE last.frame)

\* C15 as amended: the data is the frame's data field if that field is
\* truthy, and the whole frame otherwise (also when the field is null).
C15_LegacyNormalized ==
    LegacyStatus =>
        ForwardedNormalized(IF HasData(last.frame) THEN last.frame.data ELSE last.frame)

\* {type:'status', status:'x'} was forwarded to a peer with data.status = 'x'
C15_Witness ==
    /\ LegacyStatus
    /\ last.frame = StatusX
    /\ \E id \in Conns :
          SessionPeer(id) /\ Len(sent[id]) = 1 /\ sent[id][1].data.status = "x"

\* C16: after a typed joinSession frame that carries sessionId, clientType
\* and isHost both in its data and at its top level, the sender's entry holds
\* the values of the data.
C16_DataTakesPrecedence ==
    (LastIsFrame({"joinSession"}) /\ ~IsLegacy(last.frame) /\ HasData(last.frame)
        /\ {"sessionId", "clientType", "isHost"} \subseteq
                DOMAIN last.frame \cap DOMAIN last.frame.data) =>
        /\ Sender.sessionId = last.frame.data.sessionId
        /\ Sender.clientType = last.frame.data.clientType
        /\ Sender.isHost = last.frame.data.isHost

\* the events of a given name among evs
Named(evs, name) == SelectSeq(evs, LAMBDA e : e.name = name)

\* the step hands a chunk of len bytes to processAudioChunk
FeedsChunk(len) ==
    /\ last'.op = "message"
    /\ last'.frame.type = "audioData"
    /\ HasData(last'.frame)
    /\ last'.frame.data.base64 = len

\* every chunk in the buffer has the configured chunk size
AllChunkSize(list) ==
    \A i \in DOMAIN list : Len(list[i]) = 1 /\ list[i][1].len = CHUNK_SIZE

\* the number of chunks of the configured size that fill the buffer
TenChunks == 10

\* C17: while processing, a chunk of the configured size that arrives when
\* the buffer holds fewer than nine such chunks is buffered and fires no
\* 'audioReady'; the one that arrives when it holds nine fires exactly one
\* 'audioReady', whose payload is the ten chunks in arrival order, and
\* leaves the buffer empty.
C17_TenthChunkFlushes ==
    [][(FeedsChunk(CHUNK_SIZE) /\ isProcessing /\ AllChunkSize(audioBuffer)) =>
        LET run == [src |-> pushed + 1, len |-> CHUNK_SIZE] IN
        IF Len(audioBuffer) = TenChunks - 1
        THEN /\ Len(Named(events', "audioReady")) = 1
             /\ Named(events', "audioReady")[1].audioData =
                    [i \in 1..TenChunks |-> IF i < TenChunks THEN audioBuffer[i][1] ELSE run]
             /\ audioBuffer' = <<>>
             /\ GetTotalBufferSize(audioBuffer') = 0
        ELSE /\ Len(audioBuffer) < TenChunks - 1
             /\ Named(events', "audioReady") = <<>>
             /\ audioBuffer' = Append(audioBuffer, <<run>>)]_vars

\* the tenth chunk of the configured size has just been handed off with the
\* nine before it
C17_Witness ==
    /\ last.op = "message"
    /\ last.frame.type = "audioData"
    /\ last.frame.data.base64 = CHUNK_SIZE
    /\ Len(Named(events, "audioReady")) = 1
    /\ Len(Named(events, "audioReady")[1].audioData) = TenChunks
    /\ \A i \in 1..TenChunks : Named(events, "audioReady")[1].audioData[i].len = CHUNK_SIZE
    /\ audioBuffer = <<>>

\* C18: stopProcessing leaves an empty buffer and isProcessing false, and
\* every 'audioReady' payload consists of chunks pushed after the last
\* stopProcessing, so none carries a byte of the chunks a stop found pending.
C18_StopDiscards ==
    [][/\ last'.op = "stopProcessing" =>
            /\ GetTotalBufferSize(audioBuffer') = 0
            /\ ~isProcessing'
       /\ \A i \in DOMAIN ReadyPayloads(events') :
            \A j \in DOMAIN ReadyPayloads(events')[i] :
                ReadyPayloads(events')[i][j].src > tally.stopped]_vars

\* an 'audioReady' fires after a stopProcessing that found chunks pending
C18_Witness ==
    /\ ReadyPayloads(events) # <<>>
    /\ tally.discarded > 0
    /\ tally.stopped > 0

\* C19: a chunk handed to processAudioChunk while isProcessing is false
\* changes nothing: the buffer is as it was, no event is emitted, nothing is
\* broadcast and isProcessing is still false.
C19_IdleChunkIgnored ==
    [][((\E len \in ChunkLengths : FeedsChunk(len)) /\ ~isProcessing) =>
        /\ audioBuffer' = audioBuffer
        /\ events' = <<>>
        /\ sent' = NoOutput
        /\ ~isProcessing'
        /\ pushed' = pushed
        /\ tally' = tally]_vars

\* a chunk arrived after processing was stopped
C19_Witness ==
    /\ last.op = "message"
    /\ last.frame.type = "audioData"
    /\ ~isProcessing
    /\ events = <<>>
    /\ audioBuffer = <<>>
    /\ tally.discarded > 0

\* C20: at every step the bytes handed off in 'audioReady' payloads plus the
\* bytes in the buffer are the bytes accepted minus the bytes a stop
\* discarded; the buffer holds, in push order, exactly the chunks pushed
\* since a chunk last left it; and an 'audioReady' payload is exactly those
\* chunks in push order, so no chunk is handed off twice and none is lost.
C20_ByteConservation ==
    [][/\ tally'.ready + GetTotalBufferSize(audioBuffer')
            = tally'.accepted - tally'.discarded
       /\ Len(audioBuffer') = pushed' - tally'.gone
       /\ \A i \in DOMAIN audioBuffer' :
            Len(audioBuffer'[i]) = 1 /\ audioBuffer'[i][1].src = tally'.gone + i
       /\ \A k \in DOMAIN ReadyPayloads(events') :
            /\ Len(ReadyPayloads(events')[k]) = pushed' - tally.gone
            /\ \A j \in DOMAIN ReadyPayloads(events')[k] :
                  /\ ReadyPayloads(events')[k][j].src = tally.gone + j
                  /\ j <= Len(audioBuffer) =>
                        ReadyPayloads(events')[k][j] = audioBuffer[j][1]
                  /\ j > Len(audioBuffer) =>
                        ReadyPayloads(events')[k][j].len = last'.frame.data.base64]_vars

\* bytes were handed off in two payloads at least, bytes were discarded by a
\* stop, and chunks are pending
C20_Witness ==
    /\ tally.ready >= 2 * ReadyThreshold
    /\ tally.discarded > 0
    /\ audioBuffer # <<>>
    /\ tally.accepted = tally.ready + tally.discarded + GetTotalBufferSize(audioBuffer)

\* C21: while processing, a chunk handed to processAudioChunk makes it emit
\* exactly one 'audioLevel' event, computed from that chunk, and the event is
\* the first the call emits: an 'audioReady' the chunk triggers comes after it.
C21_LevelBeforeReady ==
    [][((\E len \in ChunkLengths : FeedsChunk(len)) /\ isProcessing) =>
        /\ Len(Named(events', "audioLevel")) = 1
        /\ events'[1].name = "audioLevel"
        /\ events'[1].level =
                CalculateAudioLevel(BufferFrom(last'.frame.data, pushed + 1))
        /\ Len(Named(events', "audioReady")) <= 1
        /\ \A k \in DOMAIN events' : events'[k].name = "audioReady" => k > 1]_vars

\* a chunk filled the buffer: its level was emitted, then the hand-off
C21_Witness ==
    /\ last.op = "message"
    /\ last.frame.type = "audioData"
    /\ Len(events) = 2
    /\ events[1].name = "audioLevel"
    /\ events[1].level = [dB |-> pushed]
    /\ events[2].name = "audioReady"

\* the handler of run i has returned without a collaborator having thrown
RunSucceeded(i) == runs[i].pc \in {"done", "noSpeaker"}

\* C22: when a requestAIResponse of a connection joined as browser is over and
\* neither generateAIResponse nor synthesizeSpeech has thrown, an aiResponse
\* envelope has been broadcast for it to the session of the requester, which
\* is still open.
C22_AnsweredOnSuccess ==
    \A i \in DOMAIN runs :
        (/\ RunSucceeded(i)
         /\ runs[i].clientId \in DOMAIN clients
         /\ IsOpen(clients[runs[i].clientId])
         /\ JoinedAs(clients[runs[i].clientId], "browser")) => runs[i].broadcast

\* C23: closing the connection that sent a requestAIResponse does not stop
\* its run; when synthesizeSpeech returns for a run whose requester closed
\* while a collaborator was awaited, the run completes and exactly one
\* aiResponse envelope with the stored message is written to every open
\* connection of the session the requester was in, and nothing is written to
\* anyone else, the closed requester included.
C23_DetachedRunCompletes ==
    [][\A i \in DOMAIN runs :
        /\ (last'.op = "close" /\ runs[i].clientId = last'.clientId) =>
                runs'[i].pc = runs[i].pc
        /\ (last'.op = "synthesizeReturns" /\ last'.run = i /\ runs[i].detached # <<>>) =>
              /\ runs'[i].pc = "done"
              /\ runs[i].clientId \notin DOMAIN clients'
              /\ sent'[runs[i].clientId] = <<>>
              /\ \A id \in Conns :
                    IF /\ id \in DOMAIN clients
                       /\ IsOpen(clients[id])
                       /\ Str(clients[id], "sessionId") = runs[i].detached[1].sessionId
                    THEN sent'[id] = <<AIResponse(RunMessage(i, messages))>>
                    ELSE sent'[id] = <<>>]_vars

\* the requester is gone and a peer of its session got the aiResponse
C23_Witness ==
    /\ last.op = "synthesizeReturns"
    /\ last.clientId \notin DOMAIN clients
    /\ runs[last.run].pc = "done"
    /\ \E id \in DOMAIN clients :
          /\ IsOpen(clients[id])
          /\ Len(sent[id]) = 1
          /\ sent[id][1].type = "aiResponse"

RunSteps == {"generateThrows", "generateReturns", "synthesizeThrows", "synthesizeReturns"}

\* C24: the envelopes sent because of a frame m1 of a connection are all sent
\* before any envelope sent because of a later frame m2 of that connection:
\* a step that writes envelopes for a run (m1 a requestAIResponse) never
\* follows a step that wrote envelopes for a later frame of the requester.
C24_ArrivalOrder ==
    [][\A i \in DOMAIN runs :
        (last'.op \in RunSteps /\ last'.run = i /\ sent' # NoOutput) =>
            ~(/\ last.op = "message"
              /\ last.clientId = runs[i].clientId
              /\ InFlight(runs[i])
              /\ sent # NoOutput)]_vars

\* a registered connection of the session whose socket is no longer open
DeadMember(id, sessionId) ==
    id \in DOMAIN clients /\ ~IsOpen(clients[id]) /\ Str(clients[id], "sessionId") = sessionId

\* C25: an envelope is only ever written to a registered connection whose
\* socket is open; the aiResponse broadcast reaches every open connection of
\* the session, exactly once, whether or not the session also holds
\* connections that are no longer open; and no fan-out step (a frame, a close
\* notice, a collaborator returning) writes an error envelope to anyone.
C25_DeadRecipientsSkipped ==
    /\ \A id \in Conns : sent[id] # <<>> => (id \in DOMAIN clients /\ IsOpen(clients[id]))
    /\ (last.op = "synthesizeReturns" /\ last.clientId \in DOMAIN clients) =>
          \A id \in Conns :
              IF /\ id \in DOMAIN clients
                 /\ IsOpen(clients[id])
                 /\ Str(clients[id], "sessionId") = Str(clients[last.clientId], "sessionId")
              THEN Len(sent[id]) = 1 /\ sent[id][1].type = "aiResponse"
              ELSE sent[id] = <<>>
    /\ last.op \in {"message", "close", "generateReturns", "synthesizeReturns"} =>
          NoneOfType("error")

\* the aiResponse was broadcast to a session whose first connection is no
\* longer open, and reached the open connection registered after it
C25_Witness ==
    /\ last.op = "synthesizeReturns"
    /\ last.clientId \in DOMAIN clients
    /\ \E dead, live \in DOMAIN clients :
          /\ dead < live
          /\ DeadMember(dead, Str(clients[last.clientId], "sessionId"))
          /\ IsOpen(clients[live])
          /\ Len(sent[live]) = 1
          /\ sent[live][1].type = "aiResponse"

\* C26: after a status frame from a joined connection, browser or desktop,
\* every other open connection of the sender's session has received exactly
\* one status envelope, forwarded from the frame, and nobody else (the
\* sender, a connection of another session or of none) has received anything.
C26_StatusToPeers ==
    (LastIsFrame({"status"}) /\ Joined(clients, last.clientId)) =>
        \A id \in Conns :
            IF SessionPeer(id)
            THEN /\ Len(sent[id]) = 1
                 /\ sent[id][1].type = "status"
                 /\ sent[id][1].source \in {"browser", "desktop"}
            ELSE sent[id] = <<>>

\* a desktop's status frame reached the browser of its session
C26_Witness ==
    /\ LastIsFrame({"status"})
    /\ JoinedAs(Sender, "desktop")
    /\ sent[last.clientId] = <<>>
    /\ \E id \in Conns :
          /\ SessionPeer(id)
          /\ Str(clients[id], "clientType") = "browser"
          /\ Len(sent[id]) = 1

\* the key and command a hotkey frame supplies, in either dialect
SuppliedHotkey(frame) == IF HasData(frame) THEN frame.data ELSE frame

\* an open connection of the session the sender is in, the sender included
SessionMember(id) ==
    /\ id \in DOMAIN clients
    /\ IsOpen(clients[id])
    /\ Str(clients[id], "sessionId") = Sender.sessionId

\* C28: after a hotkey frame from a connection joined as browser, written in
\* the legacy dialect (key and command at the top level) or the typed one
\* (key and command in data), every open connection of the session has
\* received one hotkeyTriggered envelope carrying that key and that command,
\* and an AI response has been asked for exactly when the command is riff,
\* oneLiner or wrap.
C28_HotkeyRelayed ==
    (/\ LastIsFrame({"hotkey"})
     /\ last.frame \in {LegacyHotkey, TypedHotkey}
     /\ JoinedAs(Sender, "browser")) =>
        /\ \A id \in Conns :
              IF SessionMember(id)
              THEN /\ Len(OfType(id, "hotkeyTriggered")) = 1
                   /\ Str(OfType(id, "hotkeyTriggered")[1].data, "key")
                          = SuppliedHotkey(last.frame).key
                   /\ Str(OfType(id, "hotkeyTriggered")[1].data, "command")
                          = SuppliedHotkey(last.frame).command
              ELSE sent[id] = <<>>
        /\ (SuppliedHotkey(last.frame).command \in AICommands)
              <=> (\E i \in DOMAIN runs : runs[i].clientId = last.clientId)

BrowserOnlyTypes == {"requestAIResponse", "hotkey", "updatePersonality"}

\* C29: a requestAIResponse, hotkey or updatePersonality frame sent by a
\* connection whose clientType is desktop starts no AI response, stores
\* nothing and delivers no envelope to anyone.
C29_BrowserOnly ==
    [][(/\ last'.op = "message"
        /\ Str(last'.frame, "type") \in BrowserOnlyTypes
        /\ Str(clients[last'.clientId], "clientType") = "desktop") =>
            /\ runs' = runs
            /\ messages' = messages
            /\ personalities' = personalities
            /\ sent' = NoOutput]_vars

\* the personality values an updatePersonality frame supplies, in either dialect
SuppliedPersonality(frame) == (IF HasData(frame) THEN frame.data ELSE frame).personality

\* C30: after an updatePersonality frame from a connection joined as browser,
\* legacy or as the dashboard sends it, the record stored for the sender's
\* session holds the values the frame supplied, and every open connection of
\* the session has received one personalityUpdated envelope carrying the
\* stored record.
C30_PersonalityPersisted ==
    (/\ LastIsFrame({"updatePersonality"})
     /\ last.frame \in {LegacyPersonality, TypedPersonality}
     /\ JoinedAs(Sender, "browser")) =>
        /\ Sender.sessionId \in DOMAIN personalities
        /\ \A k \in DOMAIN SuppliedPersonality(last.frame) :
              personalities[Sender.sessionId][k] = SuppliedPersonality(last.frame)[k]
        /\ \A id \in Conns :
              IF SessionMember(id)
              THEN sent[id] = <<PersonalityUpdated(personalities[Sender.sessionId])>>
              ELSE sent[id] = <<>>

\* the types the switch of handleWebSocketMessage has a case for
RoutingTable ==
    {"joinSession", "desktop_connect", "audioData"} \cup RoutedTypes \cup BrowserOnlyTypes

\* C27: a frame whose type the switch has no case for sends no envelope to
\* anyone, the sender included, and leaves the registry, the audio engine
\* (buffer, processing flag, chunk count; no event is emitted) and the storage
\* as they were.
C27_UnknownTypeIgnored ==
    [][(last'.op = "message" /\ Str(last'.frame, "type") \notin RoutingTable) =>
        /\ sent' = NoOutput
        /\ clients' = clients
        /\ audioBuffer' = audioBuffer
        /\ isProcessing' = isProcessing
        /\ pushed' = pushed
        /\ events' = <<>>
        /\ runs' = runs
        /\ messages' = messages
        /\ analytics' = analytics
        /\ personalities' = personalities]_vars

\* a frame of an unknown type that carries audio arrived from a joined
\* connection while chunks were pending and a peer of its session was open
C27_Witness ==
    /\ last.op = "message"
    /\ last.frame = StrayAudio
    /\ Joined(clients, last.clientId)
    /\ \E id \in Conns : SessionPeer(id)
    /\ isProcessing
    /\ audioBuffer # <<>>
    /\ sent = NoOutput

\* the aiResponse envelopes the last step wrote
AIResponsesSent(out) ==
    UNION {{out[id][k] : k \in {j \in DOMAIN out[id] : out[id][j].type = "aiResponse"}} :
              id \in Conns}

\* C32: a run's reply is stored when generateAIResponse returns, before
\* synthesizeSpeech is called; the aiResponse is broadcast only by the step
\* in which synthesizeSpeech returns, for a reply stored before that step;
\* the analytics change only in a step that broadcasts; so every aiResponse
\* delivered carries a stored message, and a run that has not got past the
\* generation has stored none.
C32_StepOrder ==
    [][/\ \A e \in AIResponsesSent(sent') :
            /\ e.data.message \in messages
            /\ last'.op = "synthesizeReturns"
            /\ runs[last'.run].pc = "synthesize"
       /\ messages' # messages =>
            /\ last'.op = "generateReturns"
            /\ runs'[last'.run].pc = "synthesize"
            /\ ~runs'[last'.run].broadcast
            /\ sent' = NoOutput
       /\ analytics' # analytics =>
            /\ last'.op = "synthesizeReturns"
            /\ runs'[last'.run].broadcast
       /\ \A i \in DOMAIN runs' :
            /\ runs'[i].pc = "generate" => \A m \in messages' : m.id # i
            /\ runs'[i].pc \in {"synthesize", "done"} => \E m \in messages' : m.id = i
            /\ runs'[i].broadcast => runs'[i].pc = "done"]_vars

\* speech synthesis failed for a reply that had been stored: the message is
\* in storage and no aiResponse was ever broadcast for it
C32_Witness ==
    /\ last.op = "synthesizeThrows"
    /\ \E m \in messages : m.id = last.run /\ m.isAIGenerated
    /\ ~runs[last.run].broadcast
    /\ analytics = [s \in AISpeakerSessions |-> DemoTotalResponses]

\* the runs that broadcast their aiResponse
Broadcasts == {i \in DOMAIN runs : runs[i].broadcast}
Quiescent == \A i \in DOMAIN runs : ~InFlight(runs[i])

\* C33: at every moment, and so whenever no run is in flight, totalResponses
\* of the session (all connections are in s1, which has an analytics record)
\* is its initial value plus the number of runs that have broadcast an
\* aiResponse, whatever requestAIResponse and hotkey requests overlap.
C33_ResponsesCounted ==
    analytics["s1"] = DemoTotalResponses + Cardinality(Broadcasts)

\* two requests overlapped (the second began before the first had its reply),
\* both were answered, and nothing is in flight
C33_Witness ==
    /\ Len(runs) = MaxOverlap
    /\ Quiescent
    /\ Cardinality(Broadcasts) = 2
    /\ last.op = "synthesizeReturns"
    /\ last.run = 1
    /\ analytics["s1"] = DemoTotalResponses + 2

\* C34: the session a reply is persisted under and the session it is
\* broadcast to are one and the same (the session of the requester when its
\* frame was received): every connection that is written an aiResponse
\* envelope is in the session the envelope's message is stored under.
C34_OneSession ==
    \A id \in Conns : \A k \in DOMAIN sent[id] :
        sent[id][k].type = "aiResponse" =>
            Str(clients[id], "sessionId") = sent[id][k].data.message.sessionId

GuardedTypes == RoutedTypes \cup BrowserOnlyTypes

\* C36: a frame of type transcript, audio_levels, control_command,
\* ai_response, status, requestAIResponse, hotkey or updatePersonality sent by
\* a connection that has not joined a session delivers no envelope to any
\* connection, starts no call of a collaborator and leaves the storage
\* (messages, analytics, personalities) and the registry as they were.
C36_UnjoinedInert ==
    [][(/\ last'.op = "message"
        /\ Str(last'.frame, "type") \in GuardedTypes
        /\ ~Joined(clients, last'.clientId)) =>
            /\ sent' = NoOutput
            /\ runs' = runs
            /\ transcribing' = transcribing
            /\ messages' = messages
            /\ analytics' = analytics
            /\ personalities' = personalities
            /\ clients' = clients]_vars

\* a frame that asks for an AI response arrived from a connection that names
\* no session, while another connection was open in no session either and a
\* third party's session had a member; nothing was sent and no run started
C36_Witness ==
    /\ last.op = "message"
    /\ Str(last.frame, "type") = "requestAIResponse"
    /\ ~Joined(clients, last.clientId)
    /\ Str(Sender, "clientType") = "browser"
    /\ \E id \in Conns : id # last.clientId /\ id \in DOMAIN clients /\ IsOpen(clients[id])
    /\ sent = NoOutput
    /\ runs = <<>>

\* C37: every envelope forwarded for a transcript, audio_levels,
\* control_command, ai_response or status frame carries as source the
\* clientType of the connection that sent the frame.
C37_SourceIsSenderKind ==
    LastIsFrame(RoutedTypes) =>
        \A id \in Conns : \A k \in DOMAIN sent[id] :
            sent[id][k].source = Str(Sender, "clientType")

\* the transcript a requestAIResponse frame supplies, in either dialect
SuppliedTranscript(frame) ==
    IF Has(frame, "transcript") THEN frame.transcript ELSE DataStr(frame, "transcript")

\* C38: the run a requestAIResponse frame starts hands generateAIResponse the
\* transcript the frame supplies, at its top level (legacy dialect) or inside
\* data (typed envelope).
C38_TranscriptPassed ==
    (LastIsFrame({"requestAIResponse"}) /\ Joined(clients, last.clientId)) =>
        runs[Len(runs)].transcript = SuppliedTranscript(last.frame)

\* the socket the hook currently uses (ws.current)
CurrentSocket == hook.sockets[Len(hook.sockets)]

\* the hook's socket has closed while the hook was asked to be in a session
HookLostSocket == hook.sessionId # Undef /\ CurrentSocket.readyState = "CLOSED"

\* the hook's current socket is open and has sent joinSession for the hook's
\* sessionId and clientType
HookRejoined ==
    /\ CurrentSocket.readyState = "OPEN"
    /\ \E k \in DOMAIN CurrentSocket.sent :
          CurrentSocket.sent[k] = JoinMessage(hook.sessionId, hook.clientType)

\* C31: whenever the hook's socket has closed or failed, the hook eventually
\* has an open socket on which it has sent joinSession for its sessionId and
\* clientType.
C31_Reconnects == HookLostSocket ~> HookRejoined

\* C39: at most one interval of each kind (transcript, audio level, status)
\* is active, and an interval that fires while the simulation is not running
\* (paused or stopped) sends no frame.
C39_TimersQuiet ==
    /\ \A kind \in TimerKinds :
          Cardinality({t \in simulator.timers : t.kind = kind}) <= 1
    /\ (last.op = "interval" /\ ~simulator.isRunning) => simulator.out = <<>>

====
